---- MODULE Spec2Model ----
(***************************************************************************)
(* Ticket allocation and draw engine of the lottery bot.                   *)
(*                                                                         *)
(* The repository holds two programs over the same kind of document store:*)
(*   src/Main.py  the admin-verified flow  (/verify commits a sale)        *)
(*   src/main.py  the self-service flow    (payment proof commits a sale)  *)
(* The variable app says which of the two is running.  Every handler is a  *)
(* process; each `await` on the store is one step, so handlers interleave  *)
(* exactly at the points where the code can be suspended.                  *)
(***************************************************************************)
EXTENDS Integers, Sequences, FiniteSets, TLC

\* ---------------------------------------------------------------- bounds
\* Config.TOTAL_TICKETS_PER_VALUE (100 in the source), scaled down.
TOTAL_TICKETS_PER_VALUE == 5
\* Config.LOYALTY_BONUS_PURCHASE_COUNT (10 in the source), scaled down.
LOYALTY_BONUS_PURCHASE_COUNT == 2
\* Config.REFERRAL_REQUIRED_COUNT (10 in the source), scaled down.
REFERRAL_REQUIRED_COUNT == 1
\* Handler invocations started from a pool that is fresh or one short of full.
MaxOps == 2
\* The seconds of the wall clock considered.
MaxNow == 2
\* The tickets of a pool whose numbers reach two digits.
ListSize == 11

\* ------------------------------------------------------- configuration
REFERRAL_BONUS_TICKET_VALUE == 200
MinEntries == 3
MaxWinners == 3
REWARDS == (100 :> <<5000, 2000, 1000>>) @@ (200 :> <<10000, 4000, 2000>>)
             @@ (300 :> <<15000, 6000, 3000>>)

\* As many users as a pool has tickets, so that a pool can be sold to
\* distinct buyers.
Users == 1..TOTAL_TICKETS_PER_VALUE
Numbers == 1..TOTAL_TICKETS_PER_VALUE
NoUser == 0
Last == TOTAL_TICKETS_PER_VALUE
\* Handler invocations that can be in progress at once.
Procs == {1, 2}

\* The starting points of a behaviour:
\*   "fresh"  a new store; two handlers at a time
\*   "last"   tickets 1..Last-1 sold one after another to users 1..Last-1;
\*            two handlers at a time
\*   "seq"    a new store; one handler at a time, user i buys ticket i and
\*            nobody is referred
\*   "solo"   a new store; one handler at a time, all of them for user 1
\*   "start"  a new store in which user 1 has no account yet; two handlers
\*            at a time, no purchases
\*   "mono"   user 1 has bought tickets one after another until two are
\*            left and wants these two as well; two handlers at a time
\*   "retry"  a new store; one handler at a time, all of them for user 1,
\*            no purchases; a store call of the referral claim may fail
\*   "roll"   as "last", one handler at a time and only user Last buys; the
\*            process may crash during a reset and is started again
\*   "invite" as "start", and user 1 starts from a referral link
\*   "duo"    two denominations, of each tickets 1..Last-1 sold one after
\*            another to users 1..Last-1; user Last buys the last ticket
\*            of each; two handlers at a time
\*   "clock"  as "last", only user Last buys, and the seconds of the wall
\*            clock pass while the handlers run
\*   "browse" a new store; user 1 buys ticket 1 while user 2 looks through
\*            the tickets, selects and cancels; two handlers at a time
Scenarios == {"fresh", "last", "seq", "solo", "start", "mono", "retry",
              "roll", "invite", "browse", "duo", "clock"}

VARIABLES
    app,           \* "Main" (src/Main.py) or "main" (src/main.py)
    scn,           \* the starting point of the behaviour
    tickets,       \* tickets_<value> / lotteryTickets_<value> collections
    registrations, \* lottery_registrations / lotteryRegistrations collection
    draws,         \* draws / lotteryDraws collection
    transactions,  \* transactions collection (Main.py)
    users,         \* user documents
    round,         \* per value: number of pools created so far (round id)
    clock,         \* source of document ids and timestamps
    proc,          \* per handler invocation: position and locals
    opsLeft,       \* handler invocations that may still start
    now,           \* datetime.now(), in seconds
    batch_id,      \* per ticket document of Main.py: its batch_id field
    batches        \* per value: the batch ids its tickets were given so far

\* Config.TICKET_VALUES, restricted to the referral denomination, and to
\* two denominations where the behaviour of one beside the other is studied.
TICKET_VALUES == IF scn = "duo" THEN {100, 200} ELSE {200}

vars == <<app, scn, tickets, registrations, draws, transactions, users, round,
          clock, proc, opsLeft, now, batch_id, batches>>

wall == <<now, batch_id, batches>>

store == <<tickets, registrations, draws, transactions, users, round, clock>>

\* The purchases of value d the users attempt: <<user, number>>.  From a
\* fresh store number 1 is wanted by two users and user 2 wants two numbers;
\* with one ticket left it is wanted by two users; one after another, user n
\* wants number n once the numbers below it are sold; on their own, user 1
\* wants numbers 1 and 2; buying every ticket, user 1 wants the last two
\* numbers.
Wants(d) ==
    CASE scn = "fresh" -> {<<1, 1>>, <<2, 1>>, <<2, 2>>}
      [] scn = "mono"  -> {<<1, Last - 1>>, <<1, Last>>}
      [] scn = "last"  -> {<<Last, Last>>, <<1, Last>>}
      [] scn \in {"roll", "duo", "clock"} -> {<<Last, Last>>}
      [] scn = "solo"  -> {<<1, 1>>, <<1, 2>>}
      [] scn = "browse" -> {<<1, 1>>}
      [] scn \in {"start", "retry", "invite"} -> {}
      [] scn = "seq"   ->
           {<<n, n>> : n \in {m \in Numbers :
                                /\ tickets[d][m].exists
                                /\ ~tickets[d][m].is_sold
                                /\ \A o \in 1..(m - 1) :
                                     tickets[d][o].exists => tickets[d][o].is_sold}}

Slots == IF scn \in {"seq", "solo", "retry", "roll"} THEN {1} ELSE Procs

\* The users whose referral code newcomers start with.
Referrers ==
    IF scn \in {"seq", "mono", "roll", "invite", "browse", "duo", "clock"}
    THEN {} ELSE {1}

\* The users who look through the tickets without buying.
Browsers == IF scn \in {"browse", "list"} THEN {2} ELSE {}

\* The users who send /start.
Starters == IF scn \in {"start", "invite"} THEN {1} ELSE {}

\* Config.ADMIN_IDS, and the users who send /verify: the administrators and
\* user 1, who is none.
ADMIN_IDS == {TOTAL_TICKETS_PER_VALUE + 1}
Callers == ADMIN_IDS \cup {1}

\* ------------------------------------------------------------ documents
NoTicket == [exists |-> FALSE, is_sold |-> FALSE, buyer_id |-> NoUser,
             is_free |-> FALSE, free_reason |-> "None", round |-> 0]

FreshTicket(r) == [exists |-> TRUE, is_sold |-> FALSE, buyer_id |-> NoUser,
                   is_free |-> FALSE, free_reason |-> "None", round |-> r]

\* str(update.effective_user.id): the Telegram id of user u as its sequence
\* of decimal digits.  Ten digits, as the ids Telegram hands out today; the
\* ids of users 1 and 2, and of 3 and 4, differ in the last digit only.
UserId(u) == <<1, 0, 0, 0, 0, 0, 0, (u + 1) \div 2, 0, u % 2>>

\* user_id[:8]
CodeLen == 8

\* The referral code of a new account: f"ref_{user_id[:8]}" in Main.py,
\* user_id[:8] in main.py.
referral_code(u) ==
    [prefix |-> IF app = "Main" THEN "ref_" ELSE "",
     digits |-> SubSeq(UserId(u), 1, CodeLen)]

\* A user document without a referral code field.
NoCode == [prefix |-> "", digits |-> <<>>]

\* The user document as get_or_create (Main.py) and start (main.py) set it.
NewUser(u) == [exists |-> TRUE, balance |-> 0,
               tickets_purchased_count |-> [d \in TICKET_VALUES |-> 0],
               referral_count |-> 0, referral_bonus_claimed |-> FALSE,
               referral_code |-> referral_code(u)]

\* No user document: a read of it yields the defaults.
NoAccount == [exists |-> FALSE, balance |-> 0,
              tickets_purchased_count |-> [d \in TICKET_VALUES |-> 0],
              referral_count |-> 0, referral_bonus_claimed |-> FALSE,
              referral_code |-> NoCode]

Idle == [pc |-> "idle", op |-> "none", caller |-> NoUser, user |-> NoUser,
         code |-> NoCode, referrer |-> NoUser, value |-> 0,
         number |-> 0, free |-> 0, winners |-> <<>>, k |-> 0,
         snap |-> {}, cnt |-> 0, res |-> "none", shown |-> <<>>,
         cround |-> 0, fround |-> 0,
         todo |-> {}, committed |-> FALSE, checked |-> FALSE,
         aborted |-> FALSE]

\* A handler returns with a result: its locals are dropped.
Finish(q, result) == Idle

\* A handler is about to send the reply that tells its result.
Reply(q, result) ==
    [Idle EXCEPT !.pc = "reply", !.op = q.op, !.caller = q.caller,
                 !.user = q.user, !.res = result]

\* A new invocation takes the lowest free slot.
Free(p) ==
    /\ p \in Slots
    /\ proc[p].pc = "idle"
    /\ \A o \in Procs : o < p => proc[o].pc # "idle"

\* The ticket document after a sale's update: no condition on is_sold is
\* part of the write.
SoldTicket(t, u, free, reason) ==
    [t EXCEPT !.is_sold = TRUE, !.buyer_id = u, !.is_free = free,
              !.free_reason = reason]

PendingTx(u, d, n) ==
    [user_id |-> u, ticket_value |-> d, ticket_number |-> n,
     status |-> "pending_verification"]

VerifiedTx(u, d, n) == [PendingTx(u, d, n) EXCEPT !.status = "verified"]

\* The store after construction: initialize_tickets has created every pool.
InitFresh ==
    /\ tickets = [d \in TICKET_VALUES |-> [n \in Numbers |-> FreshTicket(1)]]
    /\ registrations = {}
    /\ transactions = {}
    /\ users = [u \in Users |-> NewUser(u)]
    /\ clock = 1

\* The store after users 1..Last-1 have bought tickets 1..Last-1 of every
\* value one after another (in Main.py: after all proofs were submitted and
\* those of tickets 1..Last-1 verified in turn), and the referrers have
\* invited the required number of newcomers.
InitLast ==
    /\ tickets = [d \in TICKET_VALUES |-> [n \in Numbers |->
                    IF n < Last
                    THEN SoldTicket(FreshTicket(1), n, FALSE, "None")
                    ELSE FreshTicket(1)]]
    /\ registrations =
         {[id |-> n, ticket_value |-> REFERRAL_BONUS_TICKET_VALUE,
           ticket_number |-> n, buyer_id |-> n, is_free |-> FALSE,
           free_reason |-> "None", round |-> 1] : n \in 1..(Last - 1)}
    /\ transactions =
         IF app = "Main"
         THEN {VerifiedTx(n, REFERRAL_BONUS_TICKET_VALUE, n) :
                 n \in 1..(Last - 1)}
              \cup {PendingTx(w[1], REFERRAL_BONUS_TICKET_VALUE, w[2]) :
                      w \in Wants(REFERRAL_BONUS_TICKET_VALUE)}
         ELSE {}
    /\ users = [u \in Users |->
                  [NewUser(u) EXCEPT
                     !.tickets_purchased_count[REFERRAL_BONUS_TICKET_VALUE] =
                        IF u < Last THEN 1 ELSE 0,
                     !.referral_count =
                        IF u \in Referrers THEN REFERRAL_REQUIRED_COUNT
                        ELSE 0]]
    /\ clock = Last

\* The store of InitLast with every value of TICKET_VALUES sold up to the
\* last ticket.
InitDuo ==
    /\ tickets = [d \in TICKET_VALUES |-> [n \in Numbers |->
                    IF n < Last
                    THEN SoldTicket(FreshTicket(1), n, FALSE, "None")
                    ELSE FreshTicket(1)]]
    /\ registrations =
         {[id |-> IF d = REFERRAL_BONUS_TICKET_VALUE THEN n ELSE Last - 1 + n,
           ticket_value |-> d, ticket_number |-> n, buyer_id |-> n,
           is_free |-> FALSE, free_reason |-> "None", round |-> 1] :
            d \in TICKET_VALUES, n \in 1..(Last - 1)}
    /\ transactions =
         IF app = "Main"
         THEN {VerifiedTx(n, d, n) : d \in TICKET_VALUES, n \in 1..(Last - 1)}
              \cup UNION {{PendingTx(w[1], d, w[2]) : w \in Wants(d)} :
                            d \in TICKET_VALUES}
         ELSE {}
    /\ users = [u \in Users |->
                  [NewUser(u) EXCEPT
                     !.tickets_purchased_count =
                        [d \in TICKET_VALUES |-> IF u < Last THEN 1 ELSE 0]]]
    /\ clock = 2 * Last - 1

\* User 1 buying the lowest available number of a value again and again,
\* up to the last two: free[n] tells whether ticket n came as a loyalty
\* bonus (award_loyalty_bonus drawing the lowest available number), count is
\* the purchase count, which in Main.py the bonus raises as well.
RECURSIVE MonoHistory(_, _)
MonoHistory(free, count) ==
    IF Len(free) >= TOTAL_TICKETS_PER_VALUE - 2
    THEN [free |-> free, count |-> count]
    ELSE IF (count + 1) % LOYALTY_BONUS_PURCHASE_COUNT = 0
    THEN MonoHistory(free \o <<FALSE, TRUE>>,
                     IF app = "Main" THEN count + 2 ELSE count + 1)
    ELSE MonoHistory(Append(free, FALSE), count + 1)

\* The store after that history.
InitMono ==
    LET h == MonoHistory(<<>>, 0)
        d == REFERRAL_BONUS_TICKET_VALUE
        reason(n) == IF h.free[n] THEN "Loyalty Bonus" ELSE "None"
    IN  /\ tickets = [v \in TICKET_VALUES |-> [n \in Numbers |->
                        IF n <= Len(h.free)
                        THEN SoldTicket(FreshTicket(1), 1, h.free[n], reason(n))
                        ELSE FreshTicket(1)]]
        /\ registrations =
             {[id |-> n, ticket_value |-> d, ticket_number |-> n,
               buyer_id |-> 1, is_free |-> h.free[n],
               free_reason |-> reason(n), round |-> 1] : n \in DOMAIN h.free}
        /\ transactions =
             IF app = "Main"
             THEN {VerifiedTx(1, d, n) : n \in {m \in DOMAIN h.free :
                                                  ~h.free[m]}}
             ELSE {}
        /\ users = [u \in Users |->
                      IF u = 1
                      THEN [NewUser(u) EXCEPT
                              !.tickets_purchased_count[d] = h.count]
                      ELSE NewUser(u)]
        /\ clock = Len(h.free) + 1

\* A new store in which the starters have no user document yet.
InitStart ==
    /\ tickets = [d \in TICKET_VALUES |-> [n \in Numbers |-> FreshTicket(1)]]
    /\ registrations = {}
    /\ transactions = {}
    /\ users = [u \in Users |-> IF u \in Starters THEN NoAccount
                               ELSE NewUser(u)]
    /\ clock = 1

\* The tickets the store starts with were created in second 0, which has
\* passed.
InitBatches ==
    /\ now = 1
    /\ batch_id = [d \in TICKET_VALUES |-> [n \in Numbers |-> 0]]
    /\ batches = [d \in TICKET_VALUES |-> {0}]

Init ==
    /\ app \in {"Main", "main"}
    /\ scn \in Scenarios
    /\ CASE scn \in {"last", "roll", "clock"} -> InitLast
         [] scn = "mono"  -> InitMono
         [] scn = "duo"   -> InitDuo
         [] scn \in {"start", "invite"} -> InitStart
         [] OTHER         -> InitFresh
    /\ draws = {}
    /\ round = [d \in TICKET_VALUES |-> 1]
    /\ proc = [p \in Procs |-> Idle]
    /\ opsLeft = CASE scn = "seq" -> TOTAL_TICKETS_PER_VALUE + 1
                    [] scn \in {"solo", "start", "retry", "invite", "browse"}
                         -> MaxOps + 1
                    [] OTHER -> MaxOps
    /\ InitBatches

\* ------------------------------------------------------- store queries
\* TicketModel.get_available: the numbers of the unsold ticket documents.
get_available(d) ==
    {n \in DOMAIN tickets[d] : tickets[d][n].exists /\ ~tickets[d][n].is_sold}

SoldNumbers(d) ==
    {n \in Numbers : tickets[d][n].exists /\ tickets[d][n].is_sold}

RegsOf(d) == {r \in registrations : r.ticket_value = d}

\* The registration document added for a sale.
Registration(d, n, u, free, reason, r) ==
    [id |-> clock, ticket_value |-> d, ticket_number |-> n, buyer_id |-> u,
     is_free |-> free, free_reason |-> reason, round |-> r]

\* firestore.Increment(1) on tickets_purchased_count.<value>
IncrementCount(u, d) ==
    [users EXCEPT ![u].tickets_purchased_count[d] = @ + 1]

Step(p, q) == proc' = [proc EXCEPT ![p] = q]

\* The documents of a query result in the order of their ids.
RECURSIVE InIdOrder(_)
InIdOrder(S) ==
    IF S = {} THEN <<>>
    ELSE LET x == CHOOSE y \in S : \A z \in S : y.id <= z.id
         IN  <<x>> \o InIdOrder(S \ {x})

\* The order of two document ids, strings of digits: the first character
\* that differs decides, and a string comes after its proper prefixes.
IdBefore(a, b) ==
    \/ \E i \in DOMAIN a \cap DOMAIN b :
         /\ a[i] < b[i]
         /\ \A j \in 1..(i - 1) : a[j] = b[j]
    \/ /\ Len(a) < Len(b)
       /\ \A j \in DOMAIN a : a[j] = b[j]

\* str(n) for a ticket number: its decimal digits.
RECURSIVE str(_)
str(n) == IF n < 10 THEN <<n>> ELSE str(n \div 10) \o <<n % 10>>

\* The numbers S of the ticket documents a query yields, in the order of
\* the stream: that of the document ids str(n).
RECURSIVE stream(_)
stream(S) ==
    IF S = {} THEN <<>>
    ELSE LET x == CHOOSE y \in S : \A z \in S \ {y} : IdBefore(str(y), str(z))
         IN  <<x>> \o stream(S \ {x})

\* list.sort() on numbers.
RECURSIVE sort(_)
sort(S) ==
    IF S = {} THEN <<>>
    ELSE LET x == CHOOSE y \in S : \A z \in S : y <= z
         IN  <<x>> \o sort(S \ {x})

\* random.shuffle: the outcomes considered are the rotations of the list.
Shuffles(S) ==
    LET s == InIdOrder(S)
        n == Len(s)
    IN  {[i \in 1..n |-> s[((i + k - 1) % n) + 1]] : k \in 0..(n - 1)}

Range(s) == {s[i] : i \in DOMAIN s}

\* ====================================================== src/Main.py
\* PurchaseHandlers.select_number + process_payment: the ticket is checked
\* when the number is selected; the proof only records a pending transaction.
process_payment(u, d, n) ==
    /\ app = "Main"
    /\ PendingTx(u, d, n) \notin transactions
    /\ tickets[d][n].exists /\ ~tickets[d][n].is_sold
    /\ transactions' = transactions \cup {PendingTx(u, d, n)}
    /\ UNCHANGED <<wall, app, scn, tickets, registrations, draws, users, round, clock,
                   proc, opsLeft>>

\* A /verify that does not look at its caller, by which
\* C17_UnauthorizedChangesNothing is seen to depend on the administrator
\* check.
verify_payment_any_caller(p) ==
    /\ app = "Main" /\ Free(p) /\ opsLeft > 0
    /\ \E a \in Callers : \E d \in TICKET_VALUES : \E w \in Wants(d) :
         IF PendingTx(w[1], d, w[2]) \notin transactions
         THEN Step(p, Finish(Idle, "NoPendingTransaction"))
         ELSE Step(p, [Idle EXCEPT !.pc = "v_tx", !.op = "verify",
                                   !.caller = a, !.user = w[1],
                                   !.value = d, !.number = w[2]])
    /\ opsLeft' = opsLeft - 1
    /\ UNCHANGED <<wall, app, scn, store>>

\* AdminSystem.verify_payment up to the query for the pending transaction:
\* a caller who is no administrator is refused before anything is read.
verify_payment(p) ==
    /\ app = "Main" /\ Free(p) /\ opsLeft > 0
    /\ \E a \in Callers : \E d \in TICKET_VALUES : \E w \in Wants(d) :
         IF a \notin ADMIN_IDS
         THEN Step(p, Reply([Idle EXCEPT !.op = "verify", !.caller = a,
                                         !.user = w[1]],
                            "Unauthorized"))
         ELSE IF PendingTx(w[1], d, w[2]) \notin transactions
         THEN Step(p, Finish(Idle, "NoPendingTransaction"))
         ELSE Step(p, [Idle EXCEPT !.pc = "v_tx", !.op = "verify",
                                   !.caller = a, !.user = w[1],
                                   !.value = d, !.number = w[2]])
    /\ opsLeft' = opsLeft - 1
    /\ UNCHANGED <<wall, app, scn, store>>

\* transaction_doc_ref.update({"status": "verified", ...})
verify_update_transaction(p) ==
    /\ proc[p].pc = "v_tx"
    /\ transactions' =
         (transactions \ {PendingTx(proc[p].user, proc[p].value,
                                    proc[p].number)})
         \cup {VerifiedTx(proc[p].user, proc[p].value, proc[p].number)}
    /\ Step(p, [proc[p] EXCEPT !.pc = "v_ticket"])
    /\ UNCHANGED <<wall, app, scn, tickets, registrations, draws, users, round, clock,
                   opsLeft>>

\* TicketModel.mark_as_sold, first await: the ticket document update.  The
\* update of a missing document raises, which ends the handler.
mark_as_sold_ticket(p, d, n, free, reason, next) ==
    LET q == proc[p] IN
    IF ~tickets[d][n].exists
    THEN /\ Step(p, Finish(q, "Error"))
         /\ UNCHANGED tickets
    ELSE /\ tickets' = [tickets EXCEPT
                           ![d][n] = SoldTicket(@, q.user, free, reason)]
         /\ Step(p, [q EXCEPT
                       !.pc = next, !.committed = TRUE,
                       !.cround = IF free THEN @ ELSE tickets[d][n].round,
                       !.fround = IF free THEN tickets[d][n].round ELSE @])

\* TicketModel.mark_as_sold, second await: the registration is added.
mark_as_sold_registration(p, d, n, free, reason, next) ==
    LET q == proc[p] IN
    /\ registrations' = registrations \cup
                           {Registration(d, n, q.user, free, reason,
                                         IF free THEN q.fround ELSE q.cround)}
    /\ clock' = clock + 1
    /\ Step(p, [q EXCEPT !.pc = next])

verify_mark_ticket(p) ==
    /\ proc[p].pc = "v_ticket"
    /\ mark_as_sold_ticket(p, proc[p].value, proc[p].number, FALSE, "None",
                           "v_reg")
    /\ UNCHANGED <<wall, app, scn, registrations, draws, transactions, users, round,
                   clock, opsLeft>>

verify_add_registration(p) ==
    /\ proc[p].pc = "v_reg"
    /\ mark_as_sold_registration(p, proc[p].value, proc[p].number, FALSE,
                                 "None", "v_count")
    /\ UNCHANGED <<wall, app, scn, tickets, draws, transactions, users, round, opsLeft>>

\* UserModel.update_tickets_purchased_count, then the success reply.
verify_update_count(p) ==
    /\ proc[p].pc = "v_count"
    /\ users' = IncrementCount(proc[p].user, proc[p].value)
    /\ Step(p, [proc[p] EXCEPT !.pc = "v_user", !.res = "Success"])
    /\ UNCHANGED <<wall, app, scn, tickets, registrations, draws, transactions, round,
                   clock, opsLeft>>

\* The user document is read back and the loyalty condition is decided.
verify_check_loyalty(p) ==
    LET q == proc[p]
        count == users[q.user].tickets_purchased_count[q.value]
    IN  /\ q.pc = "v_user"
        /\ Step(p, [q EXCEPT !.pc = IF count % LOYALTY_BONUS_PURCHASE_COUNT = 0
                                     THEN "l_avail" ELSE "v_sold"])
        /\ UNCHANGED <<wall, app, scn, store, opsLeft>>

\* award_loyalty_bonus with its else branch ending the handler: the draw
\* check of verify_payment is not reached after a shortfall.
loyalty_shortfall_returns(p) ==
    LET q == proc[p] IN
    /\ q.pc = "l_avail"
    /\ IF get_available(q.value) = {}
       THEN Step(p, Finish(q, "NoNumbersAvailable"))
       ELSE \E f \in get_available(q.value) :
              Step(p, [q EXCEPT !.pc = "l_ticket", !.free = f])
    /\ UNCHANGED <<wall, app, scn, store, opsLeft>>

\* LotterySystem.award_loyalty_bonus: the available numbers are read and one
\* is chosen at random; with none available the user is told so and the
\* handler goes on.
loyalty_get_available(p) ==
    LET q == proc[p] IN
    /\ q.pc = "l_avail"
    /\ IF get_available(q.value) = {}
       THEN Step(p, [q EXCEPT !.pc = "v_sold", !.res = "NoNumbersAvailable"])
       ELSE \E f \in get_available(q.value) :
              Step(p, [q EXCEPT !.pc = "l_ticket", !.free = f])
    /\ UNCHANGED <<wall, app, scn, store, opsLeft>>

loyalty_mark_ticket(p) ==
    /\ proc[p].pc = "l_ticket"
    /\ mark_as_sold_ticket(p, proc[p].value, proc[p].free, TRUE,
                           "Loyalty Bonus", "l_reg")
    /\ UNCHANGED <<wall, app, scn, registrations, draws, transactions, users, round,
                   clock, opsLeft>>

loyalty_add_registration(p) ==
    /\ proc[p].pc = "l_reg"
    /\ mark_as_sold_registration(p, proc[p].value, proc[p].free, TRUE,
                                 "Loyalty Bonus", "l_count")
    /\ UNCHANGED <<wall, app, scn, tickets, draws, transactions, users, round, opsLeft>>

loyalty_update_count(p) ==
    /\ proc[p].pc = "l_count"
    /\ users' = IncrementCount(proc[p].user, proc[p].value)
    /\ Step(p, [proc[p] EXCEPT !.pc = "v_sold"])
    /\ UNCHANGED <<wall, app, scn, tickets, registrations, draws, transactions, round,
                   clock, opsLeft>>

\* A draw condition that never holds, by which C9_LastSaleDraws is seen to
\* depend on verify_payment's draw condition.
verify_never_draws(p) ==
    LET q == proc[p] IN
    /\ q.pc = "v_sold"
    /\ Step(p, Finish([q EXCEPT !.checked = TRUE], q.res))
    /\ UNCHANGED <<wall, app, scn, store, opsLeft>>

\* verify_payment's draw condition: the sold tickets are counted.
verify_check_draw(p) ==
    LET q == proc[p] IN
    /\ q.pc = "v_sold"
    /\ IF Cardinality(SoldNumbers(q.value)) >= TOTAL_TICKETS_PER_VALUE
       THEN Step(p, [q EXCEPT !.pc = "d_regs", !.checked = TRUE])
       ELSE Step(p, Finish([q EXCEPT !.checked = TRUE], q.res))
    /\ UNCHANGED <<wall, app, scn, store, opsLeft>>

\* A selection loop that lets a buyer win more than once, by which
\* C6_DistinctWinners is seen to depend on the loop's buyer condition.
RECURSIVE DrawLoopAnyBuyer(_, _, _, _)
DrawLoopAnyBuyer(sold, i, winners, d) ==
    IF i > TOTAL_TICKETS_PER_VALUE \/ Len(winners) >= MaxWinners
    THEN [err |-> FALSE, winners |-> winners]
    ELSE IF i > Len(sold)
    THEN [err |-> TRUE, winners |-> winners]
    ELSE LET c == sold[i]
         IN  IF \A w \in Range(winners) : w.ticket_number # c.ticket_number
             THEN DrawLoopAnyBuyer(sold, i + 1,
                                   Append(winners,
                                          [position |-> Len(winners) + 1,
                                           ticket_number |-> c.ticket_number,
                                           user_id |-> c.buyer_id,
                                           prize |-> REWARDS[d][Len(winners) + 1]]),
                                   d)
             ELSE DrawLoopAnyBuyer(sold, i + 1, winners, d)

\* LotterySystem.conduct_draw's selection loop over the shuffled
\* registrations: sold[i] for i = 0 .. TOTAL_TICKETS_PER_VALUE - 1, which
\* raises IndexError when the list ends before three winners are found.
RECURSIVE DrawLoop(_, _, _, _)
DrawLoop(sold, i, winners, d) ==
    IF i > TOTAL_TICKETS_PER_VALUE \/ Len(winners) >= MaxWinners
    THEN [err |-> FALSE, winners |-> winners]
    ELSE IF i > Len(sold)
    THEN [err |-> TRUE, winners |-> winners]
    ELSE LET c == sold[i]
             fresh == /\ \A w \in Range(winners) :
                           /\ w.ticket_number # c.ticket_number
                           /\ w.user_id # c.buyer_id
         IN  IF fresh
             THEN DrawLoop(sold, i + 1,
                           Append(winners,
                                  [position |-> Len(winners) + 1,
                                   ticket_number |-> c.ticket_number,
                                   user_id |-> c.buyer_id,
                                   prize |-> REWARDS[d][Len(winners) + 1]]),
                           d)
             ELSE DrawLoop(sold, i + 1, winners, d)

\* LotterySystem.conduct_draw: the registrations of the value are read; with
\* fewer than three the draw is postponed; else they are shuffled and the
\* winners selected.  An exception is caught and ends the draw.
conduct_draw_select(p) ==
    LET q == proc[p]
        sold_tickets == RegsOf(q.value)
    IN  /\ q.pc = "d_regs"
        /\ IF Cardinality(sold_tickets) < MinEntries
           THEN Step(p, Finish(q, "DrawPostponed"))
           ELSE \E shuffled \in Shuffles(sold_tickets) :
                  LET out == DrawLoop(shuffled, 1, <<>>, q.value)
                  IN  IF out.err
                      THEN Step(p, Finish(q, "DrawFailed"))
                      ELSE Step(p, [q EXCEPT !.pc = "d_add",
                                             !.winners = out.winners])
        /\ UNCHANGED <<wall, app, scn, store, opsLeft>>

\* The draw record as added to the draws collection.
DrawRecord(d, winners) ==
    [id |-> clock, ticket_value |-> d, winners |-> winners,
     round |-> round[d]]

conduct_draw_record(p) ==
    LET q == proc[p] IN
    /\ q.pc = "d_add"
    /\ draws' = draws \cup {DrawRecord(q.value, q.winners)}
    /\ clock' = clock + 1
    /\ Step(p, [q EXCEPT !.pc = "d_credit", !.k = 1])
    /\ UNCHANGED <<wall, app, scn, tickets, registrations, transactions, users, round,
                   opsLeft>>

\* UserModel.update_user_balance: firestore.Increment(amount) on balance.
update_user_balance(u, amount) ==
    [users EXCEPT ![u].balance = @ + amount]

\* A draw that returns once the winners are credited, by which
\* C18_DrawnRoundRollsOver is seen to depend on the reset that follows.
conduct_draw_without_reset(p) ==
    LET q == proc[p]
        w == q.winners[q.k]
    IN  /\ q.pc = "d_credit"
        /\ users' = update_user_balance(w.user_id, w.prize)
        /\ IF q.k = Len(q.winners)
           THEN Step(p, Finish(q, q.res))
           ELSE Step(p, [q EXCEPT !.k = @ + 1])
        /\ UNCHANGED <<wall, app, scn, tickets, registrations, draws, transactions,
                       round, clock, opsLeft>>

\* One winner is notified and credited per step; after the last one the
\* tickets are reset.
conduct_draw_credit(p) ==
    LET q == proc[p]
        w == q.winners[q.k]
    IN  /\ q.pc = "d_credit"
        /\ users' = update_user_balance(w.user_id, w.prize)
        /\ Step(p, [q EXCEPT !.k = @ + 1,
                             !.pc = IF q.k = Len(q.winners)
                                    THEN "r_tsnap" ELSE "d_credit"])
        /\ UNCHANGED <<wall, app, scn, tickets, registrations, draws, transactions,
                       round, clock, opsLeft>>

\* LotterySystem.reset_tickets: the ticket documents are streamed ...
reset_stream_tickets(p) ==
    LET q == proc[p] IN
    /\ q.pc = "r_tsnap"
    /\ Step(p, [q EXCEPT !.pc = "r_tdel", !.winners = <<>>, !.k = 0,
                         !.snap = {n \in Numbers : tickets[q.value][n].exists}])
    /\ UNCHANGED <<wall, app, scn, store, opsLeft>>

\* ... and deleted in one batch.
DeleteTickets(d, ids) ==
    [tickets EXCEPT ![d] = [n \in Numbers |->
                              IF n \in ids THEN NoTicket ELSE tickets[d][n]]]

reset_delete_tickets(p) ==
    LET q == proc[p] IN
    /\ q.pc = "r_tdel"
    /\ tickets' = DeleteTickets(q.value, q.snap)
    /\ Step(p, [q EXCEPT !.pc = "r_rsnap", !.snap = {}])
    /\ UNCHANGED <<wall, app, scn, registrations, draws, transactions, users, round,
                   clock, opsLeft>>

\* The registrations of the value are streamed ...
reset_stream_registrations(p) ==
    LET q == proc[p] IN
    /\ q.pc = "r_rsnap"
    /\ Step(p, [q EXCEPT !.pc = "r_rdel",
                         !.snap = {r.id : r \in RegsOf(q.value)}])
    /\ UNCHANGED <<wall, app, scn, store, opsLeft>>

\* ... and deleted in one batch.
DeleteRegistrations(ids) == {r \in registrations : r.id \notin ids}

reset_delete_registrations(p) ==
    LET q == proc[p] IN
    /\ q.pc = "r_rdel"
    /\ registrations' = DeleteRegistrations(q.snap)
    /\ Step(p, [q EXCEPT !.pc = "r_create", !.snap = {}])
    /\ UNCHANGED <<wall, app, scn, tickets, draws, transactions, users, round, clock,
                   opsLeft>>

\* A batch sets every ticket document 1..TOTAL_TICKETS_PER_VALUE unsold,
\* under a new batch id.
CreateTickets(d, ids, r) ==
    [tickets EXCEPT ![d] = [n \in Numbers |->
                              IF n \in ids THEN FreshTicket(r)
                              ELSE tickets[d][n]]]

\* datetime.now().strftime("%Y%m%d%H%M%S") is evaluated for each ticket of
\* the loop that fills the batch: the second may change after the j-th
\* ticket, j = TOTAL_TICKETS_PER_VALUE meaning that it does not.
LoopSplits ==
    IF scn = "clock" /\ now < MaxNow
    THEN 1..TOTAL_TICKETS_PER_VALUE ELSE {TOTAL_TICKETS_PER_VALUE}

\* The batch ids of the tickets 1..TOTAL_TICKETS_PER_VALUE of value d set in
\* a loop during which the second changes after the j-th ticket.
Stamp(d, j) ==
    /\ batch_id' = [batch_id EXCEPT
                      ![d] = [n \in Numbers |-> IF n <= j THEN now ELSE now + 1]]
    /\ batches' = [batches EXCEPT
                     ![d] = @ \cup {now} \cup
                            (IF j < TOTAL_TICKETS_PER_VALUE THEN {now + 1}
                             ELSE {})]
    /\ now' = IF j < TOTAL_TICKETS_PER_VALUE THEN now + 1 ELSE now

\* A second of the wall clock passes.
tick ==
    /\ app = "Main" /\ scn = "clock" /\ now < MaxNow
    /\ now' = now + 1
    /\ UNCHANGED <<batch_id, batches, app, scn, store, proc, opsLeft>>

\* The batch ids after initialize_tickets has run on the ticket documents
\* tk: the tickets of a value that was set anew carry the current second.
StampInitialized(tk) ==
    LET short(d) == Cardinality({n \in Numbers : tk[d][n].exists})
                      < TOTAL_TICKETS_PER_VALUE
    IN  /\ batch_id' = [d \in TICKET_VALUES |->
                          IF short(d) THEN [n \in Numbers |-> now]
                          ELSE batch_id[d]]
        /\ batches' = [d \in TICKET_VALUES |->
                         IF short(d) THEN batches[d] \cup {now}
                         ELSE batches[d]]
        /\ now' = now

\* The new round's tickets are created; the announcement that follows
\* refers to a name the module does not define, which ends the handler in
\* conduct_draw's except clause.
reset_create_tickets(p) ==
    LET q == proc[p] IN
    /\ q.pc = "r_create"
    /\ round' = [round EXCEPT ![q.value] = @ + 1]
    /\ tickets' = CreateTickets(q.value, Numbers, round[q.value] + 1)
    /\ \E j \in LoopSplits : Stamp(q.value, j)
    /\ Step(p, Finish(q, q.res))
    /\ UNCHANGED <<app, scn, registrations, draws, transactions, users, clock,
                   opsLeft>>

\* LotterySystem.initialize_tickets on the ticket documents tk under the
\* batch ids rd: a value with fewer than TOTAL_TICKETS_PER_VALUE documents
\* has them all deleted and set anew, unsold, in one batch; a value with all
\* its documents is left alone.  Only ticket documents are written.
initialize_tickets_always(tk, rd) ==
    [tickets |-> [d \in TICKET_VALUES |->
                    [n \in Numbers |-> FreshTicket(rd[d] + 1)]],
     round   |-> [d \in TICKET_VALUES |-> rd[d] + 1]]

initialize_tickets(tk, rd) ==
    LET short(d) == Cardinality({n \in Numbers : tk[d][n].exists})
                      < TOTAL_TICKETS_PER_VALUE
    IN  [tickets |-> [d \in TICKET_VALUES |->
                        IF short(d)
                        THEN [n \in Numbers |-> FreshTicket(rd[d] + 1)]
                        ELSE tk[d]],
         round   |-> [d \in TICKET_VALUES |->
                        IF short(d) THEN rd[d] + 1 ELSE rd[d]]]

\* on_startup: the process starts, no handler is running yet; the tickets
\* are initialized and the bot's commands are set.
on_startup(p) ==
    /\ app = "Main" /\ Free(p) /\ opsLeft > 0
    /\ \A o \in Procs : proc[o].pc = "idle"
    /\ tickets' = initialize_tickets(tickets, round).tickets
    /\ round' = initialize_tickets(tickets, round).round
    /\ StampInitialized(tickets)
    /\ Step(p, Reply([Idle EXCEPT !.op = "startup"], "Initialized"))
    /\ opsLeft' = opsLeft - 1
    /\ UNCHANGED <<app, scn, registrations, draws, transactions, users, clock>>

\* The process dies while reset_tickets is past its first commit and is
\* started again: the handlers in flight are gone and on_startup initializes
\* the tickets before any update is handled.
crash_restart(p) ==
    /\ app = "Main" /\ scn = "roll"
    /\ proc[p].pc \in {"r_rsnap", "r_rdel", "r_create"}
    /\ tickets' = initialize_tickets(tickets, round).tickets
    /\ round' = initialize_tickets(tickets, round).round
    /\ proc' = [o \in Procs |->
                 IF o = p THEN Reply([Idle EXCEPT !.op = "recover"],
                                     "Initialized")
                 ELSE Idle]
    /\ StampInitialized(tickets)
    /\ UNCHANGED <<app, scn, registrations, draws, transactions, users, clock,
                   opsLeft>>

\* UserModel.get_or_create for a newcomer who starts with the referral code
\* of u: the referrer's document is found by its code and its referral_count
\* is incremented.
referred_start(u) ==
    /\ app = "Main"
    /\ u \in Referrers
    /\ users[u].exists
    /\ users[u].referral_count < REFERRAL_REQUIRED_COUNT
    /\ users' = [users EXCEPT ![u].referral_count = @ + 1]
    /\ UNCHANGED <<wall, app, scn, tickets, registrations, draws, transactions, round,
                   clock, proc, opsLeft>>

\* A referral code no account has.
UnmatchedCode == [prefix |-> "ref_", digits |-> [i \in 1..CodeLen |-> 9]]

\* context.args[0] of /start when it starts with 'ref_': the links the
\* starters follow are those of users Last - 1 and Last and one with a code
\* nobody has; NoCode stands for a /start without one.
StartCodes ==
    IF scn = "invite"
    THEN {NoCode, referral_code(Last - 1), referral_code(Last), UnmatchedCode}
    ELSE {NoCode}

\* UserHandlers.start: get_or_create reads the user document; an existing
\* one is left as it is (last_active apart).
start(p) ==
    /\ app = "Main" /\ Free(p) /\ opsLeft > 0
    /\ \E u \in Starters : \E c \in StartCodes :
         IF users[u].exists
         THEN Step(p, Finish(Idle, "Success"))
         ELSE Step(p, [Idle EXCEPT !.pc = "g_set", !.op = "start",
                                   !.user = u, !.code = c])
    /\ opsLeft' = opsLeft - 1
    /\ UNCHANGED <<wall, app, scn, store>>

\* get_or_create, the document was not there when read: user_ref.set writes
\* the whole document of a new user.
get_or_create_set(p) ==
    LET q == proc[p] IN
    /\ q.pc = "g_set"
    /\ users' = [users EXCEPT ![q.user] = NewUser(q.user)]
    /\ IF q.op = "claim"
       THEN Step(p, [q EXCEPT !.pc = "g_read"])
       ELSE IF q.code # NoCode
       THEN Step(p, [q EXCEPT !.pc = "g_query"])
       ELSE Step(p, Finish(q, "Success"))
    /\ UNCHANGED <<wall, app, scn, tickets, registrations, draws, transactions, round,
                   clock, opsLeft>>

\* The user documents whose referral_code is c.
CodeHolders(c) ==
    {u \in Users : users[u].exists /\ users[u].referral_code = c}


\* get_or_create with a referrer code: the users whose referral_code equals
\* it are queried; the loop takes the first document of the result, which
\* comes in the order of the document ids, and leaves.
get_or_create_query(p) ==
    LET q == proc[p]
        referrer_docs == CodeHolders(q.code)
    IN  /\ q.pc = "g_query"
        /\ IF referrer_docs = {}
           THEN Step(p, Finish(q, "Success"))
           ELSE Step(p, [q EXCEPT
                           !.pc = "g_incr",
                           !.referrer =
                              CHOOSE u \in referrer_docs :
                                \A o \in referrer_docs \ {u} :
                                  IdBefore(UserId(u), UserId(o))])
        /\ UNCHANGED <<wall, app, scn, store, opsLeft>>

\* referrer_ref.update({"referral_count": firestore.Increment(1)})
get_or_create_increment(p) ==
    LET q == proc[p] IN
    /\ q.pc = "g_incr"
    /\ users' = [users EXCEPT ![q.referrer].referral_count = @ + 1]
    /\ Step(p, Finish(q, "Success"))
    /\ UNCHANGED <<wall, app, scn, tickets, registrations, draws, transactions, round,
                   clock, opsLeft>>

\* claim_referral_bonus decides the eligibility on the user data that
\* get_or_create returned.
ClaimDecision(u) ==
    IF /\ users[u].referral_count >= REFERRAL_REQUIRED_COUNT
       /\ ~users[u].referral_bonus_claimed
    THEN [Idle EXCEPT !.pc = "b_avail", !.op = "claim", !.user = u,
                      !.value = REFERRAL_BONUS_TICKET_VALUE]
    ELSE Reply([Idle EXCEPT !.op = "claim", !.user = u],
               "NotEligibleOrClaimed")

\* UserHandlers.claim_referral_bonus: get_or_create reads the user document;
\* with one the eligibility is decided on it.
claim_referral_bonus(p) ==
    /\ app = "Main" /\ Free(p) /\ opsLeft > 0
    /\ \E u \in Referrers :
         IF users[u].exists
         THEN Step(p, ClaimDecision(u))
         ELSE Step(p, [Idle EXCEPT !.pc = "g_set", !.op = "claim",
                                   !.user = u])
    /\ opsLeft' = opsLeft - 1
    /\ UNCHANGED <<wall, app, scn, store>>

\* get_or_create's closing read of the document it has just set.
claim_read_user(p) ==
    /\ proc[p].pc = "g_read"
    /\ Step(p, ClaimDecision(proc[p].user))
    /\ UNCHANGED <<wall, app, scn, store, opsLeft>>

\* LotterySystem.award_referral_bonus.
referral_get_available(p) ==
    LET q == proc[p] IN
    /\ q.pc = "b_avail"
    /\ IF get_available(q.value) = {}
       THEN Step(p, Reply(q, "NotAvailable"))
       ELSE \E f \in get_available(q.value) :
              Step(p, [q EXCEPT !.pc = "b_ticket", !.free = f])
    /\ UNCHANGED <<wall, app, scn, store, opsLeft>>

referral_mark_ticket(p) ==
    /\ proc[p].pc = "b_ticket"
    /\ mark_as_sold_ticket(p, proc[p].value, proc[p].free, TRUE,
                           "Referral Bonus", "b_reg")
    /\ UNCHANGED <<wall, app, scn, registrations, draws, transactions, users, round,
                   clock, opsLeft>>

referral_add_registration(p) ==
    /\ proc[p].pc = "b_reg"
    /\ mark_as_sold_registration(p, proc[p].value, proc[p].free, TRUE,
                                 "Referral Bonus", "b_count")
    /\ UNCHANGED <<wall, app, scn, tickets, draws, transactions, users, round, opsLeft>>

referral_update_count(p) ==
    /\ proc[p].pc = "b_count"
    /\ users' = IncrementCount(proc[p].user, proc[p].value)
    /\ Step(p, [proc[p] EXCEPT !.pc = "b_claimed"])
    /\ UNCHANGED <<wall, app, scn, tickets, registrations, draws, transactions, round,
                   clock, opsLeft>>

\* A store call of award_referral_bonus after mark_as_sold raises: the
\* except clause of claim_referral_bonus logs it and asks the user to try
\* again later.
referral_store_error(p) ==
    /\ app = "Main" /\ scn = "retry"
    /\ proc[p].pc \in {"b_count", "b_claimed"}
    /\ Step(p, Reply(proc[p], "Error"))
    /\ UNCHANGED <<wall, app, scn, store, opsLeft>>

\* An award that leaves referral_bonus_claimed as it is, by which
\* C13_ClaimTwice is seen to depend on the flag being set.
referral_claim_unmarked(p) ==
    /\ proc[p].pc = "b_claimed"
    /\ Step(p, Reply(proc[p], "Success"))
    /\ UNCHANGED <<wall, app, scn, store, opsLeft>>

\* user_ref.update({"referral_bonus_claimed": True}); the handler returns
\* without a draw check.
referral_set_claimed(p) ==
    /\ proc[p].pc = "b_claimed"
    /\ users' = [users EXCEPT ![proc[p].user].referral_bonus_claimed = TRUE]
    /\ Step(p, Reply(proc[p], "Success"))
    /\ UNCHANGED <<wall, app, scn, tickets, registrations, draws, transactions, round,
                   clock, opsLeft>>

\* The reply is sent and the handler returns.
reply(p) ==
    /\ proc[p].pc = "reply"
    /\ Step(p, Idle)
    /\ UNCHANGED <<wall, app, scn, store, opsLeft>>

\* A handler of the purchase conversation about to send its reply.
Shown(op, u, d, n, result, numbers) ==
    [Idle EXCEPT !.pc = "reply", !.op = op, !.user = u, !.value = d,
                 !.number = n, !.res = result, !.shown = numbers]

\* A conversation handler starts for one of the users who look around.
Browse(p) ==
    /\ scn \in {"browse", "list"} /\ Free(p) /\ opsLeft > 0
    /\ opsLeft' = opsLeft - 1
    /\ UNCHANGED <<wall, app, scn, store>>

\* PurchaseHandlers.start_purchase: the values are offered.
start_purchase(p) ==
    /\ app = "Main" /\ Browse(p)
    /\ \E u \in Browsers :
         Step(p, Shown("start_purchase", u, 0, 0, "SelectValue", <<>>))

\* PurchaseHandlers.select_value: the available numbers of the value are
\* read and the first fifty of them are offered, or the value is reported
\* sold out.
select_value(p) ==
    /\ app = "Main" /\ Browse(p)
    /\ \E u \in Browsers : \E d \in TICKET_VALUES :
         LET available == stream(get_available(d))
             display_numbers == IF Len(available) > 50
                                THEN SubSeq(available, 1, 50) ELSE available
         IN  Step(p, IF available = <<>>
                     THEN Shown("select_value", u, d, 0, "SoldOut", <<>>)
                     ELSE Shown("select_value", u, d, 0, "Numbers",
                                display_numbers))

\* select_number with the ticket marked for the user when it is selected.
select_number_reserving(p) ==
    /\ app = "Main" /\ scn = "browse" /\ Free(p) /\ opsLeft > 0
    /\ opsLeft' = opsLeft - 1
    /\ \E u \in Browsers : \E d \in TICKET_VALUES : \E n \in Numbers :
         IF ~tickets[d][n].exists \/ tickets[d][n].is_sold
         THEN /\ Step(p, Shown("select_number", u, d, n, "NoLongerAvailable",
                               <<>>))
              /\ UNCHANGED tickets
         ELSE /\ Step(p, Shown("select_number", u, d, n, "PaymentInfo", <<>>))
              /\ tickets' = [tickets EXCEPT
                                ![d][n] = SoldTicket(@, u, FALSE, "None")]
    /\ UNCHANGED <<wall, app, scn, registrations, draws, transactions, users, round,
                   clock>>

\* PurchaseHandlers.select_number: without a value selected the user is sent
\* back; else the ticket document is read, and the payment details are
\* shown if it is there and unsold.
select_number(p) ==
    /\ app = "Main" /\ Browse(p)
    /\ \E u \in Browsers : \E d \in TICKET_VALUES \cup {0} : \E n \in Numbers :
         Step(p, IF d = 0
                 THEN Shown("select_number", u, d, n, "SelectValueFirst", <<>>)
                 ELSE IF ~tickets[d][n].exists \/ tickets[d][n].is_sold
                 THEN Shown("select_number", u, d, n, "NoLongerAvailable", <<>>)
                 ELSE Shown("select_number", u, d, n, "PaymentInfo", <<>>))

\* PurchaseHandlers.cancel_purchase: the selection is dropped.
cancel_purchase(p) ==
    /\ app = "Main" /\ Browse(p)
    /\ \E u \in Browsers :
         Step(p, Shown("cancel_purchase", u, 0, 0, "Cancelled", <<>>))

NextMain ==
    \/ tick
    \/ \E d \in TICKET_VALUES : \E w \in Wants(d) :
         process_payment(w[1], d, w[2])
    \/ \E u \in Users : referred_start(u)
    \/ \E p \in Procs :
         \/ on_startup(p)
         \/ get_or_create_query(p)
         \/ get_or_create_increment(p)
         \/ crash_restart(p)
         \/ referral_store_error(p)
         \/ verify_payment(p)
         \/ verify_update_transaction(p)
         \/ verify_mark_ticket(p)
         \/ verify_add_registration(p)
         \/ verify_update_count(p)
         \/ verify_check_loyalty(p)
         \/ loyalty_get_available(p)
         \/ loyalty_mark_ticket(p)
         \/ loyalty_add_registration(p)
         \/ loyalty_update_count(p)
         \/ verify_check_draw(p)
         \/ conduct_draw_select(p)
         \/ conduct_draw_record(p)
         \/ conduct_draw_credit(p)
         \/ reset_stream_tickets(p)
         \/ reset_delete_tickets(p)
         \/ reset_stream_registrations(p)
         \/ reset_delete_registrations(p)
         \/ reset_create_tickets(p)
         \/ start(p)
         \/ get_or_create_set(p)
         \/ claim_referral_bonus(p)
         \/ claim_read_user(p)
         \/ referral_get_available(p)
         \/ referral_mark_ticket(p)
         \/ referral_add_registration(p)
         \/ referral_update_count(p)
         \/ referral_set_claimed(p)
         \/ start_purchase(p)
         \/ select_value(p)
         \/ select_number(p)
         \/ cancel_purchase(p)
         \/ app = "Main" /\ reply(p)

\* ====================================================== src/main.py
\* The self-service program.  Several invocations in progress stand for the
\* instances of the service that share the store.

\* select_ticket_number + process_payment_proof up to the store: the number
\* was among the available ones when it was selected.
process_payment_proof(p) ==
    /\ app = "main" /\ Free(p) /\ opsLeft > 0
    /\ \E d \in TICKET_VALUES : \E w \in Wants(d) :
         /\ w[2] \in get_available(d)
         /\ Step(p, [Idle EXCEPT !.pc = "p_check", !.op = "purchase",
                                 !.user = w[1], !.value = d, !.number = w[2]])
    /\ opsLeft' = opsLeft - 1
    /\ UNCHANGED <<wall, app, scn, store>>

\* ticket_doc_ref.get() and the availability check on what was read.
proof_get_ticket(p) ==
    LET q == proc[p]
        t == tickets[q.value][q.number]
    IN  /\ q.pc = "p_check"
        /\ IF t.exists /\ ~t.is_sold
           THEN Step(p, [q EXCEPT !.pc = "p_ticket"])
           ELSE Step(p, Finish(q, "Conflict"))
        /\ UNCHANGED <<wall, app, scn, store, opsLeft>>

\* A ticket document update of main.py: the write carries no condition; on
\* a missing document it raises, which ends the handler.
update_ticket(p, n, free, reason, next) ==
    LET q == proc[p]
        t == tickets[q.value][n]
    IN  IF ~t.exists
        THEN /\ Step(p, Finish(q, "Error"))
             /\ UNCHANGED tickets
        ELSE /\ tickets' = [tickets EXCEPT
                              ![q.value][n] = SoldTicket(@, q.user, free,
                                                         reason)]
             /\ Step(p, [q EXCEPT
                           !.pc = next, !.committed = TRUE,
                           !.cround = IF free THEN @ ELSE t.round,
                           !.fround = IF free THEN t.round ELSE @])

\* A registration document added by main.py.
add_registration(p, n, free, reason, next) ==
    LET q == proc[p] IN
    /\ registrations' = registrations \cup
                           {Registration(q.value, n, q.user, free, reason,
                                         IF free THEN q.fround ELSE q.cround)}
    /\ clock' = clock + 1
    /\ Step(p, [q EXCEPT !.pc = next])

proof_update_ticket(p) ==
    /\ proc[p].pc = "p_ticket"
    /\ update_ticket(p, proc[p].number, FALSE, "None", "p_reg")
    /\ UNCHANGED <<wall, app, scn, registrations, draws, transactions, users, round,
                   clock, opsLeft>>

proof_add_registration(p) ==
    /\ proc[p].pc = "p_reg"
    /\ add_registration(p, proc[p].number, FALSE, "None", "p_uread")
    /\ UNCHANGED <<wall, app, scn, tickets, draws, transactions, users, round, opsLeft>>

\* get_user_data: ticketsBoughtCount is read ...
proof_read_user(p) ==
    LET q == proc[p] IN
    /\ q.pc = "p_uread"
    /\ Step(p, [q EXCEPT !.pc = "p_uwrite",
                         !.cnt = users[q.user].tickets_purchased_count[q.value]])
    /\ UNCHANGED <<wall, app, scn, store, opsLeft>>

\* ... and written back plus one by update_user_data; the success reply
\* follows and the loyalty condition is decided on the written count.
proof_write_user(p) ==
    LET q == proc[p] IN
    /\ q.pc = "p_uwrite"
    /\ users' = [users EXCEPT
                   ![q.user].tickets_purchased_count[q.value] = q.cnt + 1]
    /\ Step(p, [q EXCEPT !.res = "Success",
                         !.pc = IF (q.cnt + 1) % LOYALTY_BONUS_PURCHASE_COUNT = 0
                                THEN "ml_avail" ELSE "k_sold"])
    /\ UNCHANGED <<wall, app, scn, tickets, registrations, draws, transactions, round,
                   clock, opsLeft>>

\* award_loyalty_bonus of main.py: the tickets are read and an unsold number
\* is chosen at random; the count of purchases is not changed.
bonus_get_available(p) ==
    LET q == proc[p] IN
    /\ q.pc = "ml_avail"
    /\ IF get_available(q.value) = {}
       THEN Step(p, [q EXCEPT !.pc = "k_sold", !.res = "NoNumbersAvailable"])
       ELSE \E f \in get_available(q.value) :
              Step(p, [q EXCEPT !.pc = "ml_ticket", !.free = f])
    /\ UNCHANGED <<wall, app, scn, store, opsLeft>>

bonus_update_ticket(p) ==
    /\ proc[p].pc = "ml_ticket"
    /\ update_ticket(p, proc[p].free, TRUE, "Loyalty Bonus", "ml_reg")
    /\ UNCHANGED <<wall, app, scn, registrations, draws, transactions, users, round,
                   clock, opsLeft>>

bonus_add_registration(p) ==
    /\ proc[p].pc = "ml_reg"
    /\ add_registration(p, proc[p].free, TRUE, "Loyalty Bonus", "k_sold")
    /\ UNCHANGED <<wall, app, scn, tickets, draws, transactions, users, round, opsLeft>>

\* check_for_lottery_draw: the sold tickets are counted.
check_for_lottery_draw(p) ==
    LET q == proc[p] IN
    /\ q.pc = "k_sold"
    /\ IF Cardinality(SoldNumbers(q.value)) >= TOTAL_TICKETS_PER_VALUE
       THEN Step(p, [q EXCEPT !.pc = "k_last", !.checked = TRUE])
       ELSE Step(p, Finish([q EXCEPT !.checked = TRUE], q.res))
    /\ UNCHANGED <<wall, app, scn, store, opsLeft>>

\* The purchase date of the latest registration of the value is read (0
\* stands for None); without one the draw is conducted.
check_last_purchase(p) ==
    LET q == proc[p]
        regs == RegsOf(q.value)
        last == IF regs = {} THEN 0
                ELSE CHOOSE i \in {r.id : r \in regs} :
                       \A r \in regs : r.id <= i
    IN  /\ q.pc = "k_last"
        /\ Step(p, [q EXCEPT !.cnt = last,
                             !.pc = IF last = 0 THEN "md_regs" ELSE "k_draws"])
        /\ UNCHANGED <<wall, app, scn, store, opsLeft>>

\* The draws of the value dated after that purchase are read: with one the
\* check returns, else the draw is conducted.
check_recent_draws(p) ==
    LET q == proc[p]
        recent_draws == {w \in draws : w.ticket_value = q.value /\ w.id > q.cnt}
    IN  /\ q.pc = "k_draws"
        /\ IF recent_draws # {}
           THEN Step(p, Finish(q, q.res))
           ELSE Step(p, [q EXCEPT !.pc = "md_regs"])
        /\ UNCHANGED <<wall, app, scn, store, opsLeft>>

\* A selection that takes, for each rank, the last eligible entry of the
\* shuffled list instead of the first, by which C24_GreedySelection is seen
\* to depend on the order of the scan.
RECURSIVE SelectWinnersFromEnd(_, _, _, _)
SelectWinnersFromEnd(eligible, i, winners, d) ==
    LET fresh == {j \in 1..Len(eligible) :
                    \A w \in Range(winners) :
                      /\ w.ticket_number # eligible[j].ticket_number
                      /\ w.user_id # eligible[j].buyer_id}
    IN  IF i > MaxWinners \/ i > Len(eligible) \/ fresh = {}
        THEN winners
        ELSE LET c == eligible[CHOOSE j \in fresh : \A o \in fresh : j >= o]
             IN  SelectWinnersFromEnd(eligible, i + 1,
                                      Append(winners,
                                             [position |-> i,
                                              ticket_number |-> c.ticket_number,
                                              user_id |-> c.buyer_id,
                                              prize |-> REWARDS[d][i]]),
                                      d)

\* conduct_lottery_draw's selection: for each of up to three ranks the first
\* entry of the shuffled list whose ticket and buyer have not been drawn; it
\* stops at the first rank without one.
RECURSIVE SelectWinners(_, _, _, _)
SelectWinners(eligible, i, winners, d) ==
    LET fresh == {j \in 1..Len(eligible) :
                    \A w \in Range(winners) :
                      /\ w.ticket_number # eligible[j].ticket_number
                      /\ w.user_id # eligible[j].buyer_id}
    IN  IF i > MaxWinners \/ i > Len(eligible) \/ fresh = {}
        THEN winners
        ELSE LET c == eligible[CHOOSE j \in fresh : \A o \in fresh : j <= o]
             IN  SelectWinners(eligible, i + 1,
                               Append(winners,
                                      [position |-> i,
                                       ticket_number |-> c.ticket_number,
                                       user_id |-> c.buyer_id,
                                       prize |-> REWARDS[d][i]]),
                               d)

\* conduct_lottery_draw: the registrations of the value are read; with fewer
\* than three it returns, and check_for_lottery_draw goes on to the reset.
conduct_lottery_draw(p) ==
    LET q == proc[p]
        eligible_tickets == RegsOf(q.value)
    IN  /\ q.pc = "md_regs"
        /\ IF Cardinality(eligible_tickets) < MinEntries
           THEN Step(p, [q EXCEPT !.pc = "mr_tsnap", !.aborted = TRUE])
           ELSE \E shuffled \in Shuffles(eligible_tickets) :
                  Step(p, [q EXCEPT
                             !.pc = "md_add",
                             !.winners = SelectWinners(shuffled, 1, <<>>,
                                                       q.value)])
        /\ UNCHANGED <<wall, app, scn, store, opsLeft>>

\* draws_collection_ref.add(draw_data); no balance is changed.
lottery_draw_record(p) ==
    LET q == proc[p] IN
    /\ q.pc = "md_add"
    /\ draws' = draws \cup {DrawRecord(q.value, q.winners)}
    /\ clock' = clock + 1
    /\ Step(p, [q EXCEPT !.pc = "mr_tsnap", !.winners = <<>>])
    /\ UNCHANGED <<wall, app, scn, tickets, registrations, transactions, users, round,
                   opsLeft>>

\* reset_tickets_for_value: the ticket documents are streamed ...
reset_value_stream_tickets(p) ==
    LET q == proc[p] IN
    /\ q.pc = "mr_tsnap"
    /\ Step(p, [q EXCEPT !.pc = "mr_tdel",
                         !.snap = {n \in Numbers : tickets[q.value][n].exists}])
    /\ UNCHANGED <<wall, app, scn, store, opsLeft>>

\* ... and deleted in one batch;
reset_value_delete_tickets(p) ==
    LET q == proc[p] IN
    /\ q.pc = "mr_tdel"
    /\ tickets' = DeleteTickets(q.value, q.snap)
    /\ Step(p, [q EXCEPT !.pc = "mr_rsnap", !.snap = {}])
    /\ UNCHANGED <<wall, app, scn, registrations, draws, transactions, users, round,
                   clock, opsLeft>>

\* the registrations of the value are streamed ...
reset_value_stream_registrations(p) ==
    LET q == proc[p] IN
    /\ q.pc = "mr_rsnap"
    /\ Step(p, [q EXCEPT !.pc = "mr_rdel",
                         !.snap = {r.id : r \in RegsOf(q.value)}])
    /\ UNCHANGED <<wall, app, scn, store, opsLeft>>

\* ... and deleted in one batch; initialize_tickets_firestore follows.
reset_value_delete_registrations(p) ==
    LET q == proc[p] IN
    /\ q.pc = "mr_rdel"
    /\ registrations' = DeleteRegistrations(q.snap)
    /\ Step(p, [q EXCEPT !.pc = "mi_read", !.snap = {},
                         !.todo = TICKET_VALUES])
    /\ UNCHANGED <<wall, app, scn, tickets, draws, transactions, users, round, clock,
                   opsLeft>>

\* The value initialize_tickets_firestore's loop is at.
NextValue(todo) == CHOOSE v \in todo : \A o \in todo : v <= o

\* initialize_tickets_firestore, per value: the ticket documents are read;
\* with fewer than TOTAL_TICKETS_PER_VALUE the missing ones are to be added.
init_read_tickets(p) ==
    LET q == proc[p]
        v == NextValue(q.todo)
        existing == {n \in Numbers : tickets[v][n].exists}
    IN  /\ q.pc = "mi_read"
        /\ IF Cardinality(existing) < TOTAL_TICKETS_PER_VALUE
           THEN Step(p, [q EXCEPT !.pc = "mi_commit",
                                  !.snap = Numbers \ existing])
           ELSE IF q.todo = {v}
           THEN Step(p, Finish(q, q.res))
           ELSE Step(p, [q EXCEPT !.todo = @ \ {v}])
        /\ UNCHANGED <<wall, app, scn, store, opsLeft>>

\* batch.commit(): the missing ticket documents are set, unsold.
init_commit_tickets(p) ==
    LET q == proc[p]
        v == NextValue(q.todo)
    IN  /\ q.pc = "mi_commit"
        /\ round' = [round EXCEPT ![v] = @ + 1]
        /\ tickets' = CreateTickets(v, q.snap, round[v] + 1)
        /\ IF q.todo = {v}
           THEN Step(p, Finish(q, q.res))
           ELSE Step(p, [q EXCEPT !.pc = "mi_read", !.snap = {},
                                  !.todo = @ \ {v}])
        /\ UNCHANGED <<wall, app, scn, registrations, draws, transactions, users,
                       clock, opsLeft>>

\* initialize_tickets_firestore run from start to end on the ticket
\* documents tk: the missing documents of a value that has fewer than
\* TOTAL_TICKETS_PER_VALUE are set, unsold; the others are left alone.
initialize_tickets_firestore(tk, rd) ==
    LET short(d) == Cardinality({n \in Numbers : tk[d][n].exists})
                      < TOTAL_TICKETS_PER_VALUE
    IN  [tickets |-> [d \in TICKET_VALUES |->
                        [n \in Numbers |->
                           IF tk[d][n].exists THEN tk[d][n]
                           ELSE FreshTicket(rd[d] + 1)]],
         round   |-> [d \in TICKET_VALUES |->
                        IF short(d) THEN rd[d] + 1 ELSE rd[d]]]

\* main: the task that initializes the tickets is created when an instance
\* starts; it runs beside the handlers.
main_startup(p) ==
    /\ app = "main" /\ Free(p) /\ opsLeft > 0
    /\ Step(p, [Idle EXCEPT !.pc = "mi_read", !.op = "startup",
                            !.todo = TICKET_VALUES])
    /\ opsLeft' = opsLeft - 1
    /\ UNCHANGED <<wall, app, scn, store>>

\* The instance dies while reset_tickets_for_value is past its first commit
\* and is started again: its handler is gone and the task that initializes
\* the tickets is created.
main_crash_restart(p) ==
    /\ app = "main" /\ scn = "roll"
    /\ proc[p].op \notin {"startup", "recover"}
    /\ proc[p].pc \in {"mr_rsnap", "mr_rdel", "mi_read", "mi_commit"}
    /\ Step(p, [Idle EXCEPT !.pc = "mi_read", !.op = "recover",
                            !.todo = TICKET_VALUES])
    /\ UNCHANGED <<wall, app, scn, store, opsLeft>>

\* claim_referral_bonus of main.py: the user document is read and the
\* eligibility decided.
self_claim_referral_bonus(p) ==
    /\ app = "main" /\ Free(p) /\ opsLeft > 0
    /\ \E u \in Referrers :
         IF /\ users[u].referral_count >= REFERRAL_REQUIRED_COUNT
            /\ ~users[u].referral_bonus_claimed
         THEN Step(p, [Idle EXCEPT !.pc = "mc_avail", !.op = "claim",
                                   !.user = u,
                                   !.value = REFERRAL_BONUS_TICKET_VALUE])
         ELSE Step(p, Reply([Idle EXCEPT !.op = "claim", !.user = u],
                            "NotEligibleOrClaimed"))
    /\ opsLeft' = opsLeft - 1
    /\ UNCHANGED <<wall, app, scn, store>>

self_claim_get_available(p) ==
    LET q == proc[p] IN
    /\ q.pc = "mc_avail"
    /\ IF get_available(q.value) = {}
       THEN Step(p, Reply(q, "NotAvailable"))
       ELSE \E f \in get_available(q.value) :
              Step(p, [q EXCEPT !.pc = "mc_ticket", !.free = f])
    /\ UNCHANGED <<wall, app, scn, store, opsLeft>>

self_claim_update_ticket(p) ==
    /\ proc[p].pc = "mc_ticket"
    /\ update_ticket(p, proc[p].free, TRUE, "Referral Bonus", "mc_reg")
    /\ UNCHANGED <<wall, app, scn, registrations, draws, transactions, users, round,
                   clock, opsLeft>>

self_claim_add_registration(p) ==
    /\ proc[p].pc = "mc_reg"
    /\ add_registration(p, proc[p].free, TRUE, "Referral Bonus", "mc_claimed")
    /\ UNCHANGED <<wall, app, scn, tickets, draws, transactions, users, round, opsLeft>>

\* The update of referralBonusClaimed raises after the ticket and the
\* registration are written: the except clause logs it and asks the user to
\* try again later.
self_claim_store_error(p) ==
    /\ app = "main" /\ scn = "retry"
    /\ proc[p].pc = "mc_claimed"
    /\ Step(p, Reply(proc[p], "Error"))
    /\ UNCHANGED <<wall, app, scn, store, opsLeft>>

\* update_user_data(user_id, {"referralBonusClaimed": True}); the handler
\* returns without check_for_lottery_draw.
self_claim_set_claimed(p) ==
    /\ proc[p].pc = "mc_claimed"
    /\ users' = [users EXCEPT ![proc[p].user].referral_bonus_claimed = TRUE,
                              ![proc[p].user].exists = TRUE]
    /\ Step(p, Reply(proc[p], "Success"))
    /\ UNCHANGED <<wall, app, scn, tickets, registrations, draws, transactions, round,
                   clock, opsLeft>>

\* start of main.py: get_user_data reads the user document; with one
\* nothing is written.
self_start(p) ==
    /\ app = "main" /\ Free(p) /\ opsLeft > 0
    /\ \E u \in Starters :
         IF users[u].exists
         THEN Step(p, Finish(Idle, "Success"))
         ELSE Step(p, [Idle EXCEPT !.pc = "ms_set", !.op = "start",
                                   !.user = u])
    /\ opsLeft' = opsLeft - 1
    /\ UNCHANGED <<wall, app, scn, store>>

\* update_user_data(..., merge=False): the whole document of a new user is
\* written.
self_start_set(p) ==
    LET q == proc[p] IN
    /\ q.pc = "ms_set"
    /\ users' = [users EXCEPT ![q.user] = NewUser(q.user)]
    /\ Step(p, Finish(q, "Success"))
    /\ UNCHANGED <<wall, app, scn, tickets, registrations, draws, transactions, round,
                   clock, opsLeft>>

\* simulate_invite: invitedUsersCount is read ...
simulate_invite(p) ==
    /\ app = "main" /\ Free(p) /\ opsLeft > 0
    /\ \E u \in Referrers :
         /\ users[u].referral_count < REFERRAL_REQUIRED_COUNT
         /\ Step(p, [Idle EXCEPT !.pc = "s_write", !.op = "invite",
                                 !.user = u, !.cnt = users[u].referral_count])
    /\ opsLeft' = opsLeft - 1
    /\ UNCHANGED <<wall, app, scn, store>>

\* ... and written back plus one, merged into the document.
simulate_invite_write(p) ==
    LET q == proc[p] IN
    /\ q.pc = "s_write"
    /\ users' = [users EXCEPT ![q.user].referral_count = q.cnt + 1,
                              ![q.user].exists = TRUE]
    /\ Step(p, Finish(q, "Success"))
    /\ UNCHANGED <<wall, app, scn, tickets, registrations, draws, transactions, round,
                   clock, opsLeft>>

\* start_lottery_conversation: the sold tickets of every value are counted and the
\* values are offered.
start_lottery_conversation(p) ==
    /\ app = "main" /\ Browse(p)
    /\ \E u \in Browsers :
         Step(p, Shown("start_lottery_conversation", u, 0, 0, "SelectValue", <<>>))

\* select_ticket_value: the tickets of the value are streamed, the numbers
\* of the unsold ones are sorted and offered, or the value is reported sold
\* out.
select_ticket_value(p) ==
    /\ app = "main" /\ Browse(p)
    /\ \E u \in Browsers : \E d \in TICKET_VALUES :
         LET available_numbers == sort(get_available(d))
         IN  Step(p, IF available_numbers = <<>>
                     THEN Shown("select_ticket_value", u, d, 0, "SoldOut", <<>>)
                     ELSE Shown("select_ticket_value", u, d, 0, "Numbers",
                                available_numbers))

\* select_ticket_number: nothing is read from the store; the number is
\* looked up in the list kept from the last select_ticket_value of the
\* conversation, which holds it (listed) or not.
select_ticket_number(p) ==
    /\ app = "main" /\ Browse(p)
    /\ \E u \in Browsers : \E d \in TICKET_VALUES \cup {0} : \E n \in Numbers :
       \E listed \in BOOLEAN :
         Step(p, IF d = 0
                 THEN Shown("select_ticket_number", u, d, n,
                            "SelectValueFirst", <<>>)
                 ELSE IF ~listed
                 THEN Shown("select_ticket_number", u, d, n,
                            "NoLongerAvailable", <<>>)
                 ELSE Shown("select_ticket_number", u, d, n, "PaymentInfo",
                            <<>>))

\* cancel_purchase of main.py: the selection is dropped.
main_cancel_purchase(p) ==
    /\ app = "main" /\ Browse(p)
    /\ \E u \in Browsers :
         Step(p, Shown("cancel_purchase", u, 0, 0, "Cancelled", <<>>))

NextSelf ==
    \E p \in Procs :
      \/ main_startup(p)
      \/ main_crash_restart(p)
      \/ self_claim_store_error(p)
      \/ process_payment_proof(p)
      \/ proof_get_ticket(p)
      \/ proof_update_ticket(p)
      \/ proof_add_registration(p)
      \/ proof_read_user(p)
      \/ proof_write_user(p)
      \/ bonus_get_available(p)
      \/ bonus_update_ticket(p)
      \/ bonus_add_registration(p)
      \/ check_for_lottery_draw(p)
      \/ check_last_purchase(p)
      \/ check_recent_draws(p)
      \/ conduct_lottery_draw(p)
      \/ lottery_draw_record(p)
      \/ reset_value_stream_tickets(p)
      \/ reset_value_delete_tickets(p)
      \/ reset_value_stream_registrations(p)
      \/ reset_value_delete_registrations(p)
      \/ init_read_tickets(p)
      \/ init_commit_tickets(p)
      \/ self_claim_referral_bonus(p)
      \/ self_claim_get_available(p)
      \/ self_claim_update_ticket(p)
      \/ self_claim_add_registration(p)
      \/ self_claim_set_claimed(p)
      \/ simulate_invite(p)
      \/ simulate_invite_write(p)
      \/ self_start(p)
      \/ self_start_set(p)
      \/ start_lottery_conversation(p)
      \/ select_ticket_value(p)
      \/ select_ticket_number(p)
      \/ main_cancel_purchase(p)
      \/ app = "main" /\ reply(p)

Next == NextMain \/ NextSelf

\* ================================================================ claims
AllIdle == \A p \in Procs : proc[p].pc = "idle"

\* The tickets <<value, number, round>> whose sale an invocation in progress
\* has committed.
CommitsOf(p) ==
    LET q == proc[p]
    IN  (IF q.cround # 0 THEN {<<q.value, q.number, q.cround>>} ELSE {})
        \cup (IF q.fround # 0 THEN {<<q.value, q.free, q.fround>>} ELSE {})

\* The Sale Records of ticket n in the current round of value d.
RecordsOf(d, n) ==
    {r \in RegsOf(d) : r.ticket_number = n /\ r.round = round[d]}

\* C1: of the commit attempts that target the same ticket of a round and
\* run concurrently, exactly one succeeds: no two invocations in progress
\* have both committed the sale of one ticket.
C1_OneCommitPerTicket ==
    \A p \in Procs, o \in Procs :
      p # o => CommitsOf(p) \cap CommitsOf(o) = {}

\* C2: in the admin-verified program, when no handler is in progress, the
\* Sold tickets of a value are exactly the tickets with a Sale Record in the
\* current round, and each has exactly one record, whose buyer is the
\* ticket's owner.
C2_SoldMatchesRecords ==
    (app = "Main" /\ AllIdle) =>
      \A d \in TICKET_VALUES, n \in Numbers :
        IF n \in SoldNumbers(d)
        THEN /\ Cardinality(RecordsOf(d, n)) = 1
             /\ \A r \in RecordsOf(d, n) : r.buyer_id = tickets[d][n].buyer_id
        ELSE RecordsOf(d, n) = {}

\* C3: within a round a Sold ticket stays Sold to its owner: a step that
\* keeps the ticket's round keeps it sold and keeps its buyer.
C3_SoldOnce ==
    [][\A d \in TICKET_VALUES, n \in Numbers :
         (/\ tickets[d][n].exists /\ tickets[d][n].is_sold
          /\ tickets'[d][n].exists
          /\ tickets'[d][n].round = tickets[d][n].round)
         => (/\ tickets'[d][n].is_sold
             /\ tickets'[d][n].buyer_id = tickets[d][n].buyer_id)]_vars

\* The Draw Records of value d created during its round r.
DrawsOf(d, r) == {w \in draws : w.ticket_value = d /\ w.round = r}

\* C4: for each value and round at most one Draw Record is ever created.
C4_OneDrawPerRound ==
    \A w \in draws, o \in draws :
      (w.ticket_value = o.ticket_value /\ w.round = o.round) => w = o

\* C5: the pool never remains fully sold with no draw: when no handler is
\* in progress, a value whose tickets are all Sold has a Draw Record for its
\* current round.
C5_FullPoolIsDrawn ==
    AllIdle =>
      \A d \in TICKET_VALUES :
        SoldNumbers(d) = Numbers => DrawsOf(d, round[d]) # {}

\* Pairwise distinct ticket numbers and pairwise distinct buyers.
DistinctWinners(winners) ==
    \A i \in DOMAIN winners, j \in DOMAIN winners :
      i # j => /\ winners[i].ticket_number # winners[j].ticket_number
               /\ winners[i].user_id # winners[j].user_id

\* C6: in any Draw Record the winners' ticket numbers are pairwise distinct
\* and the winners' buyers are pairwise distinct.
C6_DistinctWinners == \A w \in draws : DistinctWinners(w.winners)

\* C6 happens: a Draw Record with three winners exists while the Sale
\* Records it was drawn from hold two records of one buyer.
C6_Witness ==
    \E w \in draws :
      /\ Len(w.winners) = MaxWinners
      /\ \E r1 \in RegsOf(w.ticket_value), r2 \in RegsOf(w.ticket_value) :
           /\ r1 # r2 /\ r1.buyer_id = r2.buyer_id
           /\ r1.id < w.id /\ r2.id < w.id

\* C7: a draw attempted with fewer than three Sale Records aborts and leaves
\* the store untouched: the handler whose draw aborted changes no ticket, no
\* Sale Record, no Draw Record and no balance afterwards.
C7_AbortLeavesPool ==
    [][\A p \in Procs :
         (proc[p].aborted /\ proc'[p] # proc[p])
         => (/\ tickets' = tickets /\ registrations' = registrations
             /\ draws' = draws /\ users' = users)]_vars

\* C8: no Draw Record is created while a ticket of the value's current
\* round is unsold.
C8_NoDrawBeforeFull ==
    [][\A w \in draws' \ draws, n \in Numbers :
         (/\ tickets[w.ticket_value][n].exists
          /\ tickets[w.ticket_value][n].round = w.round)
         => tickets[w.ticket_value][n].is_sold]_vars

\* Every user has bought exactly one ticket of every value.
EachBoughtOne ==
    \A u \in Users, d \in TICKET_VALUES :
      users[u].tickets_purchased_count[d] = 1

C10_RolloverAfterDraw ==
    [][app = "Main" =>
       /\ \A d \in TICKET_VALUES, n \in Numbers :
            (/\ tickets[d][n].exists
             /\ tickets'[d][n] # tickets[d][n]
             /\ tickets'[d][n].round # tickets[d][n].round)
            => DrawsOf(d, tickets[d][n].round) # {}
       /\ \A r \in registrations \ registrations' :
            DrawsOf(r.ticket_value, r.round) # {}]_vars

\* C11: in the admin-verified program, whose handlers run concurrently, every
\* state shows the pool of each value complete: the ticket documents
\* 1..TOTAL_TICKETS_PER_VALUE all exist and belong to one round.
C11_PoolComplete ==
    app = "Main" =>
      \A d \in TICKET_VALUES :
        /\ \A n \in Numbers : tickets[d][n].exists
        /\ \A n \in Numbers, m \in Numbers :
             tickets[d][n].round = tickets[d][m].round

\* The loyalty-bonus Sale Records of user u for value d.
LoyaltyAwards(u, d) ==
    {r \in RegsOf(d) : r.buyer_id = u /\ r.free_reason = "Loyalty Bonus"}

\* C12: every time a user's count of purchases of a value becomes a multiple
\* of the loyalty threshold, one loyalty-bonus ticket is awarded.  For a user
\* whose handlers ran one after another, in a round that still has tickets
\* available: once the last handler has returned, the loyalty-bonus Sale
\* Records of the user number as many as the multiples of the threshold the
\* count has reached.
C12_OneAwardPerCrossing ==
    (scn = "solo" /\ AllIdle) =>
      \A u \in Users, d \in TICKET_VALUES :
        (round[d] = 1 /\ get_available(d) # {}) =>
          Cardinality(LoyaltyAwards(u, d)) =
            users[u].tickets_purchased_count[d] \div LOYALTY_BONUS_PURCHASE_COUNT

\* The referral-bonus Sale Records of user u, and the tickets held for them.
ReferralAwards(u) ==
    {r \in RegsOf(REFERRAL_BONUS_TICKET_VALUE) :
       r.buyer_id = u /\ r.free_reason = "Referral Bonus"}

ReferralTickets(u) ==
    {n \in SoldNumbers(REFERRAL_BONUS_TICKET_VALUE) :
       LET t == tickets[REFERRAL_BONUS_TICKET_VALUE][n]
       IN  t.buyer_id = u /\ t.is_free /\ t.free_reason = "Referral Bonus"}

\* C13: claims of one eligible user made one after another award one free
\* ticket of the referral value in all.  A successful claim, when it is
\* about to reply, has set referral_bonus_claimed and has awarded the user's
\* only referral-bonus ticket, with its one Sale Record; a claim of a user
\* whose bonus is claimed awards nothing: it is refused as not eligible or
\* already claimed, and the referral-bonus Sale Record stays the only one.
C13_ClaimTwice ==
    scn = "solo" =>
      \A p \in Procs :
        proc[p].op = "claim" =>
          LET u == proc[p].user
          IN  /\ (proc[p].pc = "reply" /\ proc[p].res = "Success") =>
                   /\ users[u].referral_bonus_claimed
                   /\ Cardinality(ReferralTickets(u)) = 1
              /\ users[u].referral_bonus_claimed =>
                   /\ proc[p].pc = "reply"
                   /\ proc[p].res \in {"Success", "NotEligibleOrClaimed"}
                   /\ Cardinality(ReferralAwards(u)) = 1

\* C13 happens: a second claim of a user who has claimed is about to be
\* refused.
C13_Witness ==
    \E p \in Procs :
      /\ scn = "solo" /\ proc[p].pc = "reply" /\ proc[p].op = "claim"
      /\ proc[p].res = "NotEligibleOrClaimed"
      /\ users[proc[p].user].referral_bonus_claimed
      /\ ReferralAwards(proc[p].user) # {}

\* C14: in the admin-verified program, for every user
\* referral_bonus_claimed, once true, stays true (so it turns true at most
\* once), and while it is true the user's referral_count is at least
\* REFERRAL_REQUIRED_COUNT.
C14_ClaimedOnce ==
    [][app = "Main" =>
       \A u \in Users :
         /\ users[u].referral_bonus_claimed => users'[u].referral_bonus_claimed
         /\ users'[u].referral_bonus_claimed =>
              users'[u].referral_count >= REFERRAL_REQUIRED_COUNT]_vars

\* C19: in the admin-verified program, no step lowers a user's
\* referral_count or a user's count of purchases of a value.
C19_CountersNeverDecrease ==
    [][app = "Main" =>
       \A u \in Users :
         /\ users'[u].referral_count >= users[u].referral_count
         /\ \A d \in TICKET_VALUES :
              users'[u].tickets_purchased_count[d] >=
                users[u].tickets_purchased_count[d]]_vars

\* The Sale Records of user u for value d: the paid ones and the free ones.
PaidRecords(u, d) == {r \in RegsOf(d) : r.buyer_id = u /\ ~r.is_free}

FreeRecords(u, d) == {r \in RegsOf(d) : r.buyer_id = u /\ r.is_free}

\* C15: no increment of a purchase count is lost, however the purchases of a
\* user interleave: in the first round of a value, once every handler has
\* returned, a user without free tickets has a count of purchases equal to
\* the number of the user's committed sales.
C15_NoLostIncrement ==
    AllIdle =>
      \A u \in Users, d \in TICKET_VALUES :
        (round[d] = 1 /\ FreeRecords(u, d) = {}) =>
          users[u].tickets_purchased_count[d] = Cardinality(PaidRecords(u, d))

\* C16: a verification whose ticket is Sold to another buyer by the time it
\* commits fails and changes nothing: its commit step leaves the ticket with
\* its owner, adds no Sale Record, increments no count and ends the handler.
C16_ConflictChangesNothing ==
    [][\A p \in Procs :
         (/\ app = "Main" /\ proc[p].pc = "v_ticket"
          /\ tickets[proc[p].value][proc[p].number].exists
          /\ tickets[proc[p].value][proc[p].number].is_sold
          /\ tickets[proc[p].value][proc[p].number].buyer_id # proc[p].user
          /\ proc'[p] # proc[p])
         => (/\ tickets' = tickets /\ registrations' = registrations
             /\ users' = users
             /\ proc'[p].pc \in {"idle", "reply"})]_vars

\* A /verify handler whose caller is no administrator.
Unauthorized(q) == q.op = "verify" /\ q.caller \notin ADMIN_IDS

\* C17: a /verify of a caller who is no administrator is refused as
\* Unauthorized and changes nothing: its steps are the refusal and the
\* return, and neither changes a transaction, a ticket, a Sale Record, a
\* user or a Draw Record.
C17_UnauthorizedChangesNothing ==
    [][\A p \in Procs :
         (proc'[p] # proc[p] /\ (Unauthorized(proc[p]) \/ Unauthorized(proc'[p])))
         => (/\ transactions' = transactions /\ tickets' = tickets
             /\ registrations' = registrations /\ users' = users
             /\ draws' = draws
             /\ Unauthorized(proc'[p]) =>
                  (proc'[p].pc = "reply" /\ proc'[p].res = "Unauthorized")
             /\ Unauthorized(proc[p]) => proc'[p] = Idle)]_vars

\* C17 happens: a caller who is no administrator has been refused the
\* verification of a buyer whose payment is pending.
C17_Witness ==
    \E p \in Procs :
      /\ Unauthorized(proc[p]) /\ proc[p].res = "Unauthorized"
      /\ \E tx \in transactions :
           tx.user_id = proc[p].user /\ tx.status = "pending_verification"

\* A value whose pool is fully sold and whose current round has a Draw
\* Record.
DrawnAndFull(d) == SoldNumbers(d) = Numbers /\ DrawsOf(d, round[d]) # {}

\* C18: a round with a Draw Record is rolled over: the handler that created
\* the record goes on to the rollover, so once every handler has returned no
\* value is left with a fully sold pool and a Draw Record for its current
\* round.
C18_DrawnRoundRollsOver ==
    AllIdle => \A d \in TICKET_VALUES : ~DrawnAndFull(d)

\* C18 happens: a round was drawn and rolled over: every handler has
\* returned, the Draw Record of the first round exists and the tickets of
\* the next round are all there, its Sale Records gone.
C18_Witness ==
    /\ AllIdle
    /\ \E d \in TICKET_VALUES :
         /\ DrawsOf(d, 1) # {} /\ round[d] > 1
         /\ \A n \in Numbers : tickets[d][n] = FreshTicket(round[d])
         /\ RegsOf(d) = {}

\* C20: a free ticket counts like a purchase.  For a user whose handlers
\* ran one after another, in the first round of a value: once the last
\* handler has returned, the user's count of purchases equals the number of
\* the user's Sale Records, the free ones included.
C20_FreeTicketCounts ==
    (scn = "solo" /\ AllIdle) =>
      \A u \in Users, d \in TICKET_VALUES :
        round[d] = 1 =>
          users[u].tickets_purchased_count[d] =
            Cardinality(PaidRecords(u, d)) + Cardinality(FreeRecords(u, d))

\* The prizes the Draw Records list for user u, added up.
RECURSIVE PrizesOf(_, _)
PrizesOf(u, ds) ==
    IF ds = {} THEN 0
    ELSE LET w == CHOOSE x \in ds : TRUE
             won == {i \in DOMAIN w.winners : w.winners[i].user_id = u}
             RECURSIVE Sum(_)
             Sum(I) == IF I = {} THEN 0
                       ELSE LET i == CHOOSE j \in I : TRUE
                            IN  w.winners[i].prize + Sum(I \ {i})
         IN  Sum(won) + PrizesOf(u, ds \ {w})

\* C21: a draw credits each winner with the prize of the Draw Record, once,
\* and nobody else.  For purchases handled one after another: once the last
\* handler has returned, every user's balance is the sum of the prizes the
\* Draw Records list for that user.
C21_WinnersCredited ==
    (scn = "seq" /\ AllIdle) =>
      \A u \in Users : users[u].balance = PrizesOf(u, draws)

\* C22: no two user accounts have the same referral code, and the code of an
\* account never changes once it is set.  Whenever an account is created,
\* its new referral code differs from the code of every other account; a
\* code that is set stays as it is.
C22_UniqueReferralCodes ==
    [][ \A u \in Users :
          /\ (/\ users[u].referral_code = NoCode
              /\ users'[u].referral_code # NoCode)
             => \A v \in Users \ {u} :
                  users'[v].referral_code # users'[u].referral_code
          /\ users[u].referral_code # NoCode
             => users'[u].referral_code = users[u].referral_code ]_vars

\* A value whose round has all its tickets.
FullSized(d) == \A n \in Numbers : tickets[d][n].exists

\* A step in which round initialization is called: on_startup of Main.py,
\* the read of the ticket documents by main.py's startup task.
InitializationStep(p) ==
    \/ app = "Main" /\ proc[p].pc = "idle" /\ proc'[p].op = "startup"
    \/ /\ app = "main" /\ proc[p].op = "startup" /\ proc[p].pc = "mi_read"
       /\ proc'[p] # proc[p]

\* C23: round initialization called when every value's round has all its
\* tickets changes nothing: the ticket documents (state, owner, round) and
\* the Sale Records are as before and the call ends there or, in main.py,
\* goes on to read the next value's tickets, never to a commit.
\* Initializing twice in a row equals initializing once, from every ticket
\* collection.
C23_InitializationIdempotent ==
    [][ /\ \A p \in Procs :
            (InitializationStep(p) /\ \A d \in TICKET_VALUES : FullSized(d))
            => /\ tickets' = tickets
               /\ round' = round
               /\ registrations' = registrations
               /\ \/ proc'[p].pc \in {"idle", "reply"}
                  \/ /\ app = "main" /\ proc'[p].pc = "mi_read"
                     /\ proc'[p].todo
                          = proc[p].todo \ {NextValue(proc[p].todo)}
        /\ LET once == initialize_tickets(tickets, round)
           IN  initialize_tickets(once.tickets, once.round) = once
        /\ LET once == initialize_tickets_firestore(tickets, round)
           IN  initialize_tickets_firestore(once.tickets, once.round) = once
      ]_vars

\* C23 happens: Main.py has started on a store with a full pool in which
\* tickets are sold, and the sold tickets are still there.
C23_Witness ==
    \E p \in Procs : \E d \in TICKET_VALUES :
      /\ app = "Main"
      /\ proc[p].op = "startup" /\ proc[p].pc = "reply"
      /\ FullSized(d)
      /\ SoldNumbers(d) # {} /\ RegsOf(d) # {}

\* The selection the draw is to make on the shuffled Sale Records: walking
\* the list from position j on, a record whose ticket and buyer differ from
\* those of all winners so far becomes the next winner, until there are
\* three.
RECURSIVE GreedySkip(_, _, _, _)
GreedySkip(order, j, winners, d) ==
    IF j > Len(order) \/ Len(winners) = 3
    THEN winners
    ELSE IF \E w \in Range(winners) :
              \/ w.ticket_number = order[j].ticket_number
              \/ w.user_id = order[j].buyer_id
    THEN GreedySkip(order, j + 1, winners, d)
    ELSE GreedySkip(order, j + 1,
                    Append(winners, [position |-> Len(winners) + 1,
                                     ticket_number |-> order[j].ticket_number,
                                     user_id |-> order[j].buyer_id,
                                     prize |-> REWARDS[d][Len(winners) + 1]]),
                    d)

\* The buyers in the Sale Records of value d.
Buyers(d) == {r.buyer_id : r \in RegsOf(d)}

\* Handler p reads the Sale Records for a draw and selects the winners.
SelectionStep(p) ==
    /\ proc[p].pc \in {"d_regs", "md_regs"}
    /\ proc'[p] # proc[p]
    /\ Cardinality(RegsOf(proc[p].value)) >= MinEntries

\* The handler goes on to write the Draw Record.
Selected(q) == q.pc \in {"d_add", "md_add"}

C25_FewBuyersDrawCompletes ==
    [][ /\ \A p \in Procs :
            (/\ SelectionStep(p)
             /\ Cardinality(RegsOf(proc[p].value)) <= TOTAL_TICKETS_PER_VALUE
             /\ Cardinality(Buyers(proc[p].value)) < 3)
            => /\ Selected(proc'[p])
               /\ Len(proc'[p].winners) = Cardinality(Buyers(proc[p].value))
               /\ \A i \in DOMAIN proc'[p].winners :
                    proc'[p].winners[i].position = i
        /\ AllIdle =>
             \A w \in draws :
               Len(w.winners) < 3 => round[w.ticket_value] > w.round ]_vars

\* C26: every winner a draw selects owns a ticket sold in the round being
\* drawn: at the time the Sale Records are read for the draw, the ticket of
\* each selected winner is Sold, of the current round, and its owner is the
\* winner.
C26_WinnersOwnTickets ==
    [][ \A p \in Procs :
          (SelectionStep(p) /\ Selected(proc'[p])) =>
            \A w \in Range(proc'[p].winners) :
              LET t == tickets[proc[p].value][w.ticket_number]
              IN  /\ t.exists /\ t.is_sold
                  /\ t.round = round[proc[p].value]
                  /\ t.buyer_id = w.user_id ]_vars

\* C27: claims of the referral bonus by one eligible user that run at the
\* same time grant one free ticket at most: whatever the interleaving of the
\* handlers, at most one Sale Record with the referral bonus as its reason
\* exists for a user.
C27_OneReferralTicket ==
    (app = "Main" /\ scn \in {"fresh", "last"}) =>
      \A u \in Users : Cardinality(ReferralAwards(u)) <= 1

\* C28: a referral claim can be tried again after a store call has failed
\* part-way.  Over claims made one after another, some of which fail, a user
\* holds at most one referral-bonus Sale Record and at most one
\* referral-bonus ticket, and referral_bonus_claimed is set only with that
\* ticket committed.
C28_ClaimRetrySafe ==
    scn = "retry" =>
      \A u \in Users :
        /\ Cardinality(ReferralAwards(u)) <= 1
        /\ Cardinality(ReferralTickets(u)) <= 1
        /\ users[u].referral_bonus_claimed
             => Cardinality(ReferralTickets(u)) = 1

\* C29: a Pending Payment leads to one committed sale at most: verification
\* goes through only for a payment that is pending.  Whenever a handler sets
\* a payment to verified and goes on to the sale, the payment is pending at
\* that moment, so that of several verifications of one payment only one
\* commits a sale.
C29_OneSalePerPayment ==
    [][ \A p \in Procs :
          (proc[p].pc = "v_tx" /\ proc'[p].pc = "v_ticket")
          => PendingTx(proc[p].user, proc[p].value, proc[p].number)
               \in transactions ]_vars

\* C30: a payment is verified only with its ticket committed as Sold to
\* its buyer.  When the sale of a verification fails at the ticket update,
\* the handler does not return with the payment verified.
C30_VerifiedMeansSold ==
    [][ \A p \in Procs :
          (/\ proc[p].op = "verify" /\ proc[p].pc = "v_ticket"
           /\ proc'[p].pc = "idle")
          => VerifiedTx(proc[p].user, proc[p].value, proc[p].number)
               \notin transactions' ]_vars

\* The initialization that follows a crash in the middle of a rollover has
\* run to its end in this step.
RecoveryDone(p) ==
    \/ /\ app = "Main"
       /\ proc[p].op # "recover" /\ proc'[p].op = "recover"
    \/ /\ app = "main"
       /\ proc[p].op = "recover" /\ proc'[p].pc = "idle"

\* C31: a crash at some point of a rollover is recovered by running the
\* initialization again.  Once it has run, every ticket of the value exists,
\* is Available and belongs to one round newer than every Draw Record; no
\* Sale Record of a drawn round is left, and no round has two Draw Records.
C31_CrashRecovery ==
    [][ \A p \in Procs :
          RecoveryDone(p) =>
            \A d \in TICKET_VALUES :
              /\ \A n \in Numbers :
                    /\ tickets'[d][n].exists /\ ~tickets'[d][n].is_sold
                    /\ tickets'[d][n].round = round'[d]
              /\ \A w \in draws' :
                    w.ticket_value = d =>
                      /\ w.round < round'[d]
                      /\ \A r \in registrations' :
                            r.ticket_value = d => r.round # w.round
                      /\ \A o \in draws' :
                            (o.ticket_value = d /\ o.round = w.round) => o = w
      ]_vars

\* C32: when a new account is created from a referrer code, every user
\* whose referral code it is has the referral count raised by one and no
\* other count changes; a code nobody has is passed over: the account is
\* there, the handler returns and no count has changed.
C32_ReferralCredited ==
    [][ \A p \in Procs :
          /\ (proc[p].pc = "g_query" /\ proc'[p] # proc[p]) =>
                /\ users[proc[p].user].exists
                /\ users' = users
                /\ IF CodeHolders(proc[p].code) = {}
                   THEN proc'[p].pc = "idle"
                   ELSE proc'[p].pc = "g_incr"
          /\ (proc[p].pc = "g_incr" /\ proc'[p] # proc[p]) =>
                \A r \in Users :
                  users'[r].referral_count =
                    IF r \in CodeHolders(proc[p].code)
                    THEN users[r].referral_count + 1
                    ELSE users[r].referral_count ]_vars

\* C33: a new user adds one to a referrer's count at most.  With user 1
\* the only one to open an account, no other user's referral count exceeds
\* one, however often and however interleaved user 1 starts.
C33_OneIncrementPerNewUser ==
    scn = "invite" =>
      \A r \in Users \ Starters :
        users[r].referral_count <= Cardinality(Starters)

\* The loyalty step of p finds no ticket of the value available.
Shortfall(p) ==
    /\ proc[p].pc \in {"l_avail", "ml_avail"}
    /\ get_available(proc[p].value) = {}
    /\ proc'[p] # proc[p]

\* The purchase handled by q stands in the store <<tk, rg, us>>: its ticket
\* is Sold to the buyer, its Sale Record is there, and the buyer's count is
\* a multiple of the threshold reached by incrementing.
Purchased(q, tk, rg, us) ==
    LET t == tk[q.value][q.number]
        c == us[q.user].tickets_purchased_count[q.value]
    IN  /\ t.exists /\ t.is_sold /\ t.buyer_id = q.user /\ ~t.is_free
        /\ \E r \in rg :
             /\ r.ticket_value = q.value /\ r.ticket_number = q.number
             /\ r.buyer_id = q.user /\ ~r.is_free
        /\ c > 0 /\ c % LOYALTY_BONUS_PURCHASE_COUNT = 0

\* C34: when the loyalty threshold is crossed and no ticket of the value is
\* available, the shortfall is reported, nothing is written, so that the
\* purchase that set the bonus off stays as it was committed (ticket Sold,
\* Sale Record present, count incremented), and the handler goes on to
\* evaluate the draw trigger.
C34_ShortfallKeepsPurchase ==
    [][ \A p \in Procs :
          Shortfall(p) =>
            /\ UNCHANGED <<tickets, registrations, users, draws, transactions>>
            /\ Purchased(proc[p], tickets, registrations, users)
                  => Purchased(proc[p], tickets', registrations', users')
            /\ proc'[p].res = "NoNumbersAvailable"
            /\ proc'[p].pc = IF app = "Main" THEN "v_sold" ELSE "k_sold"
            /\ proc'[p].value = proc[p].value ]_vars

\* C34 happens: a handler has reported the shortfall with its purchase
\* committed, in either program.
C34_Witness ==
    \E p \in Procs :
      /\ proc[p].res = "NoNumbersAvailable"
      /\ proc[p].pc \in {"v_sold", "k_sold"}
      /\ Purchased(proc[p], tickets, registrations, users)

\* The handlers in which a user looks around, selects and cancels.
BrowseOps ==
    {"start_purchase", "select_value", "select_number", "cancel_purchase",
     "start_lottery_conversation", "select_ticket_value", "select_ticket_number"}

\* The positions at which a handler writes the sale of a ticket: the
\* verified payment, the confirmed proof, and the bonus awards.
CommitPcs ==
    {"v_ticket", "l_ticket", "b_ticket", "p_ticket", "ml_ticket", "mc_ticket"}

\* The step is one of a handler of BrowseOps (its start or its reply), or
\* the submission of a payment proof in the admin-verified program.
BrowseStep ==
    \/ \E p \in Procs :
         /\ proc'[p] # proc[p]
         /\ proc[p].op \in BrowseOps \/ proc'[p].op \in BrowseOps
    \/ /\ app = "Main" /\ proc' = proc
       /\ \E t \in transactions' \ transactions :
            t.status = "pending_verification"

\* C35: looking around, selecting a value or a number, cancelling and, in
\* the admin-verified program, submitting a payment proof change no ticket,
\* no Sale Record, no Draw Record and no user's counts; a ticket becomes Sold
\* only in the write of a handler that commits a sale or a bonus.
C35_BrowsingChangesNothing ==
    [][ /\ BrowseStep =>
             UNCHANGED <<tickets, registrations, draws, users, round>>
        /\ \A d \in TICKET_VALUES, n \in Numbers :
             (tickets'[d][n].is_sold /\ ~tickets[d][n].is_sold) =>
               \E p \in Procs :
                 /\ proc[p].pc \in CommitPcs
                 /\ proc[p].op \notin BrowseOps
                 /\ proc[p].value = d
                 /\ n \in {proc[p].number, proc[p].free} ]_vars

\* C35 happens: in the admin-verified program user 2 has selected a number
\* and been shown the payment details while the proof submitted by user 1
\* is pending, and every ticket is still unsold.
C35_Witness ==
    /\ app = "Main" /\ scn = "browse"
    /\ \E p \in Procs :
         /\ proc[p].pc = "reply" /\ proc[p].op = "select_number"
         /\ proc[p].res = "PaymentInfo"
    /\ \E t \in transactions : t.status = "pending_verification"
    /\ \A d \in TICKET_VALUES : SoldNumbers(d) = {}

\* The Draw Records of value e.
DrawsFor(e) == {w \in draws : w.ticket_value = e}

\* The step is one of a handler that sells, awards, draws or rolls over for
\* value d.
StepFor(d) ==
    \E p \in Procs :
      /\ proc'[p] # proc[p]
      /\ proc[p].pc # "idle"
      /\ proc[p].op \in {"verify", "purchase", "claim"}
      /\ proc[p].value = d

\* C36: the values are independent: a step of a sale, a bonus award, a draw
\* or a rollover for one value leaves the tickets, the Sale Records and the
\* Draw Records of every other value as they are.
C36_ValuesIndependent ==
    [][ \A d \in TICKET_VALUES, e \in TICKET_VALUES :
          (d # e /\ StepFor(d)) =>
            /\ tickets'[e] = tickets[e]
            /\ {r \in registrations' : r.ticket_value = e} = RegsOf(e)
            /\ {w \in draws' : w.ticket_value = e} = DrawsFor(e) ]_vars

\* -------------------------------------------- start on a store left behind
\* The store a deployment with a pool of k tickets per value leaves behind,
\* k below TOTAL_TICKETS_PER_VALUE (k = 0: no store yet): of each value
\* tickets 1..k exist, those of the set sold are Sold to the users of their
\* numbers, one after another.
Leftover(k, sold) ==
    /\ tickets = [d \in TICKET_VALUES |-> [n \in Numbers |->
                    IF n > k THEN NoTicket
                    ELSE IF n \in sold
                    THEN SoldTicket(FreshTicket(1), n, FALSE, "None")
                    ELSE FreshTicket(1)]]
    /\ registrations =
         {[id |-> n, ticket_value |-> d, ticket_number |-> n, buyer_id |-> n,
           is_free |-> FALSE, free_reason |-> "None", round |-> 1] :
            d \in TICKET_VALUES, n \in sold}
    /\ transactions =
         IF app = "Main"
         THEN {VerifiedTx(n, d, n) : d \in TICKET_VALUES, n \in sold}
         ELSE {}
    /\ users = [u \in Users |->
                  [NewUser(u) EXCEPT
                     !.tickets_purchased_count =
                        [d \in TICKET_VALUES |-> IF u \in sold THEN 1 ELSE 0]]]
    /\ clock = Last

\* The program is started with TOTAL_TICKETS_PER_VALUE tickets per value on
\* such a store, and started once more.
GrownInit ==
    /\ app \in {"Main", "main"}
    /\ scn = "grown"
    /\ \E k \in 0..(Last - 1) : \E sold \in SUBSET (1..k) : Leftover(k, sold)
    /\ draws = {}
    /\ round = [d \in TICKET_VALUES |-> 1]
    /\ proc = [p \in Procs |-> Idle]
    /\ opsLeft = MaxOps
    /\ InitBatches

GrownNext ==
    \E p \in Procs :
      \/ on_startup(p)
      \/ main_startup(p)
      \/ init_read_tickets(p)
      \/ init_commit_tickets(p)
      \/ reply(p)

\* A value with fewer ticket documents than a pool has.
Short(d) ==
    Cardinality({n \in Numbers : tickets[d][n].exists})
      < TOTAL_TICKETS_PER_VALUE

\* A step in which round initialization writes the tickets of value d:
\* on_startup of Main.py, the batch commit of main.py's task for d.
InitializationWrites(p, d) ==
    \/ app = "Main" /\ proc[p].pc = "idle" /\ proc'[p].op = "startup"
    \/ /\ app = "main" /\ proc[p].pc = "mi_commit" /\ proc'[p] # proc[p]
       /\ NextValue(proc[p].todo) = d

Rollover(d) == round'[d] > round[d]

\* C38: in the admin-verified program, whose tickets carry a batch id, the
\* id given to the tickets of a value at a rollover is greater than every
\* id the value's tickets had before, and all tickets created by one
\* rollover carry the same id.
C38_BatchIdsIncrease ==
    [][ app = "Main" =>
          \A d \in TICKET_VALUES :
            Rollover(d) =>
              /\ \A n \in Numbers, m \in Numbers :
                   batch_id'[d][n] = batch_id'[d][m]
              /\ \A n \in Numbers : \A b \in batches[d] :
                   batch_id'[d][n] > b ]_vars

\* ------------------------------------------------ listing a larger pool
\* The store of a pool of ListSize tickets of which those of the set sold
\* have been bought, one each and one after another, by users 1, 2, ... in
\* the order of the numbers.
PoolWithSold(sold) ==
    LET buyer(n) == Cardinality({m \in sold : m <= n})
    IN  /\ tickets = [d \in TICKET_VALUES |-> [n \in 1..ListSize |->
                        IF n \in sold
                        THEN SoldTicket(FreshTicket(1), buyer(n), FALSE, "None")
                        ELSE FreshTicket(1)]]
        /\ registrations =
             {[id |-> buyer(n), ticket_value |-> d, ticket_number |-> n,
               buyer_id |-> buyer(n), is_free |-> FALSE,
               free_reason |-> "None", round |-> 1] :
                d \in TICKET_VALUES, n \in sold}
        /\ transactions =
             IF app = "Main"
             THEN {VerifiedTx(buyer(n), d, n) : d \in TICKET_VALUES, n \in sold}
             ELSE {}
        /\ users = [u \in Users |->
                      [NewUser(u) EXCEPT
                         !.tickets_purchased_count =
                            [d \in TICKET_VALUES |->
                               IF u <= Cardinality(sold) THEN 1 ELSE 0]]]
        /\ clock = Cardinality(sold) + 1

\* User 2 asks for the available numbers of such a pool.
ListInit ==
    /\ app \in {"Main", "main"}
    /\ scn = "list"
    /\ \E sold \in {S \in SUBSET (1..ListSize) :
                      Cardinality(S) <= Cardinality(Users)} :
         PoolWithSold(sold)
    /\ draws = {}
    /\ round = [d \in TICKET_VALUES |-> 1]
    /\ proc = [p \in Procs |-> Idle]
    /\ opsLeft = 1
    /\ now = 1
    /\ batch_id = [d \in TICKET_VALUES |-> [n \in 1..ListSize |-> 0]]
    /\ batches = [d \in TICKET_VALUES |-> {0}]

ListNext ==
    \E p \in Procs :
      \/ select_value(p)
      \/ select_ticket_value(p)
      \/ reply(p)

\* A step in which the available numbers of value d are listed by p.
Listing(p, d) ==
    /\ proc[p].pc = "idle"
    /\ proc'[p].op \in {"select_value", "select_ticket_value"}
    /\ proc'[p].value = d

\* C39: the list of the available numbers of a value holds exactly the
\* numbers of the tickets that are available when it is asked for, each
\* once, in ascending order; every query is answered from the store as it
\* is then.
C39_ListAscending ==
    [][ \A p \in Procs, d \in TICKET_VALUES :
          Listing(p, d) =>
            LET L == proc'[p].shown
            IN  /\ Range(L) = get_available(d)
                /\ Len(L) = Cardinality(get_available(d))
                /\ \A i \in DOMAIN L, j \in DOMAIN L : i < j => L[i] < L[j]
      ]_vars

Spec == Init /\ [][Next]_vars

GrownSpec == GrownInit /\ [][GrownNext]_vars

ListSpec == ListInit /\ [][ListNext]_vars

====
